---- MODULE Spec2Model ----
(***************************************************************************)
(* Model of the browser-automation-lite scripts of trappi-tools.           *)
(*                                                                         *)
(* Text is a sequence of one-character strings, so that the regular        *)
(* expressions of cleanText act on characters as they do in JavaScript.    *)
(***************************************************************************)
EXTENDS Integers, Sequences, FiniteSets, TLC

\* ------------------------------------------------------------------------
\* Bounds of the model
\* ------------------------------------------------------------------------

\* longest input string handed to cleanText in SpecClean
MaxStrLen == 6

\* most elements in the <body> of a generated document
MaxNodes == 2

\* most command-line arguments of an invocation
MaxArgs == 2

\* most blocks in the article of a document with Markdown structure
MaxBlocks == 3

\* most click and key events dispatched on the page of the element picker
MaxEvents == 4

\* most characters of a value given after -n to browser-search.js
MaxDigits == 3

\* most result elements on the search page
MaxHits == 102

\* most characters of the cleaned Markdown of a result page
MaxMarkdown == 5001

\* ------------------------------------------------------------------------
\* browser-content.js: constants
\* ------------------------------------------------------------------------

MIN_CONTENT_LENGTH == 100

\* ------------------------------------------------------------------------
\* browser-content.js: cleanText
\* ------------------------------------------------------------------------

\* the characters \s matches, among the characters of the model
Whitespace == {" ", "\n", "\t"}

IsWs(c) == c \in Whitespace

\* first index >= i of s that holds no whitespace, Len(s) + 1 when there is none
RECURSIVE SkipWs(_, _)
SkipWs(s, i) ==
  IF i > Len(s) THEN i
  ELSE IF IsWs(s[i]) THEN SkipWs(s, i + 1) ELSE i

Min(S) == CHOOSE x \in S : \A y \in S : x <= y

Max(S) == CHOOSE x \in S : \A y \in S : y <= x

\* the indices of the newlines of s in i..j
NewlinesIn(s, i, j) == {k \in i..j : s[k] = "\n"}

\* /\(\s*\)/ matches at m: "(", then whitespace only, then ")"
EmptyParensAt(s, m) ==
  /\ s[m] = "("
  /\ SkipWs(s, m + 1) <= Len(s)
  /\ s[SkipWs(s, m + 1)] = ")"

\* .replace(/\(\s*\)/g, ''): the text before the next match is copied, the
\* match is dropped, and the scan goes on behind it
RECURSIVE RemoveEmptyParensFrom(_, _)
RemoveEmptyParensFrom(s, i) ==
  LET starts == {m \in i..Len(s) : EmptyParensAt(s, m)} IN
  IF starts = {} THEN SubSeq(s, i, Len(s))
  ELSE LET m == Min(starts) IN
       SubSeq(s, i, m - 1) \o RemoveEmptyParensFrom(s, SkipWs(s, m + 1) + 1)

RemoveEmptyParens(s) == RemoveEmptyParensFrom(s, 1)

\* .replace(/\s+/g, ' '): the next match is the maximal run of whitespace
\* that begins at the next whitespace character; it becomes one space
RECURSIVE CollapseWhitespaceFrom(_, _)
CollapseWhitespaceFrom(s, i) ==
  LET starts == {m \in i..Len(s) : IsWs(s[m])} IN
  IF starts = {} THEN SubSeq(s, i, Len(s))
  ELSE LET m == Min(starts) IN
       SubSeq(s, i, m - 1) \o <<" ">> \o CollapseWhitespaceFrom(s, SkipWs(s, m + 1))

CollapseWhitespace(s) == CollapseWhitespaceFrom(s, 1)

\* /\n\s*\n\s*\n/ matches at m: a newline whose run of whitespace holds two
\* more newlines
NewlinesAt(s, m) ==
  /\ s[m] = "\n"
  /\ Cardinality(NewlinesIn(s, m + 1, SkipWs(s, m + 1) - 1)) >= 2

\* .replace(/\n\s*\n\s*\n/g, '\n\n'): both \s* are greedy, so the match
\* ends at the last newline of the run; it becomes two newlines
RECURSIVE CollapseNewlinesFrom(_, _)
CollapseNewlinesFrom(s, i) ==
  LET starts == {m \in i..Len(s) : NewlinesAt(s, m)} IN
  IF starts = {} THEN SubSeq(s, i, Len(s))
  ELSE LET m    == Min(starts)
           last == Max(NewlinesIn(s, m + 1, SkipWs(s, m + 1) - 1))
       IN  SubSeq(s, i, m - 1) \o <<"\n", "\n">> \o CollapseNewlinesFrom(s, last + 1)

CollapseNewlines(s) == CollapseNewlinesFrom(s, 1)

\* last index <= i of s that holds no whitespace, 0 when there is none
RECURSIVE SkipWsBack(_, _)
SkipWsBack(s, i) ==
  IF i < 1 THEN 0
  ELSE IF IsWs(s[i]) THEN SkipWsBack(s, i - 1) ELSE i

\* .trim()
Trim(s) ==
  LET first == SkipWs(s, 1)
      last  == SkipWsBack(s, Len(s))
  IN  IF first > last THEN <<>> ELSE SubSeq(s, first, last)

cleanText(text) ==
  Trim(CollapseNewlines(CollapseWhitespace(RemoveEmptyParens(text))))

\* ------------------------------------------------------------------------
\* Documents: the HTML that page.content() returns, as JSDOM parses it
\* ------------------------------------------------------------------------

\* A document is [title, nodes]. nodes lists the elements of <body> in
\* document order; nodes[i].parent is the index of the parent element, Body
\* for a child of <body>. An element carries its tag, class, id and role, and
\* its own text (the text nodes that are its children) as [shape, letter].
Body == 0

Null == -1

Fill(letter, n) == [i \in 1..n |-> letter]

Half == MIN_CONTENT_LENGTH \div 2

\* the characters of an element's own text
ElementText(el) ==
  LET l == el.text.letter IN
  CASE el.text.shape = "none"   -> <<>>
    [] el.text.shape = "short"  -> Fill(l, 2)
    [] el.text.shape = "below"  -> Fill(l, MIN_CONTENT_LENGTH - 1)
    [] el.text.shape = "long"   -> Fill(l, MIN_CONTENT_LENGTH)
    [] el.text.shape = "padded" ->
         Fill(l, Half) \o <<"(", " ", ")", "\n", "\n">> \o Fill(l, Half - 5)

\* i lies in the subtree of r (Body: the whole document)
RECURSIVE InSubtree(_, _, _)
InSubtree(nodes, i, r) ==
  \/ i = r
  \/ i # Body /\ InSubtree(nodes, nodes[i].parent, r)

\* element.textContent: the text of the subtree of r, in document order,
\* over the elements that are still in the document
RECURSIVE TextFrom(_, _, _, _)
TextFrom(nodes, live, r, i) ==
  IF i > Len(nodes) THEN <<>>
  ELSE (IF i \in live /\ InSubtree(nodes, i, r) THEN ElementText(nodes[i]) ELSE <<>>)
         \o TextFrom(nodes, live, r, i + 1)

textContent(nodes, live, r) == TextFrom(nodes, live, r, 1)

\* document.title: the text of <title>, "" when it is absent or empty
DocumentTitle(doc) == doc.title

\* ------------------------------------------------------------------------
\* browser-content.js: fallbackExtraction
\* ------------------------------------------------------------------------

UnwantedTags == {"script", "style", "nav", "header", "footer", "aside"}

UnwantedClasses == {"navigation", "menu", "sidebar"}

\* IsUnwanted with a slip: the class selectors are left out of the list
IsUnwantedTagsOnly(el) == el.tag \in UnwantedTags

\* 'script, style, nav, header, footer, aside, .navigation, .menu, .sidebar'
IsUnwanted(el) == el.tag \in UnwantedTags \/ el.class \in UnwantedClasses

\* unwanted.forEach(el => el.remove()): what is left of the document, an
\* element being gone when it or one of its ancestors was removed
Remaining(nodes) ==
  {i \in 1..Len(nodes) :
     ~ \E a \in 1..Len(nodes) : InSubtree(nodes, i, a) /\ IsUnwanted(nodes[a])}

\* el.matches(sel), for the selectors of lines 62-66
Matches(el, sel) ==
  CASE sel = "main"          -> el.tag = "main"
    [] sel = "article"       -> el.tag = "article"
    [] sel = "[role=main]"   -> el.role = "main"
    [] sel = ".content"      -> el.class = "content"
    [] sel = "#content"      -> el.id = "content"

\* QuerySelector with a slip: the last match in document order is taken
QuerySelectorLast(nodes, live, sel) ==
  LET hits == {i \in live : Matches(nodes[i], sel)} IN
  IF hits = {} THEN Null ELSE Max(hits)

\* doc.querySelector(sel): the first match in document order, or null
QuerySelector(nodes, live, sel) ==
  LET hits == {i \in live : Matches(nodes[i], sel)} IN
  IF hits = {} THEN Null ELSE Min(hits)

\* a || b
OrElse(a, b) == IF a # Null THEN a ELSE b

\* MainContent with a slip: <article> is tried before <main>
MainContentArticleFirst(nodes, live) ==
  OrElse(QuerySelector(nodes, live, "article"),
  OrElse(QuerySelector(nodes, live, "main"),
  OrElse(QuerySelector(nodes, live, "[role=main]"),
  OrElse(QuerySelector(nodes, live, ".content"),
  OrElse(QuerySelector(nodes, live, "#content"),
         Body)))))

\* querySelector('main') || ... || doc.body
MainContent(nodes, live) ==
  OrElse(QuerySelector(nodes, live, "main"),
  OrElse(QuerySelector(nodes, live, "article"),
  OrElse(QuerySelector(nodes, live, "[role=main]"),
  OrElse(QuerySelector(nodes, live, ".content"),
  OrElse(QuerySelector(nodes, live, "#content"),
         Body)))))

fallbackExtraction(html, url) ==
  LET live        == Remaining(html.nodes)
      mainContent == MainContent(html.nodes, live)
      text        == textContent(html.nodes, live, mainContent)
  IN  cleanText(text)

\* ------------------------------------------------------------------------
\* browser-content.js: extractContent, from the parsed document on
\* ------------------------------------------------------------------------

\* reader.parse(): null (the empty sequence) or one article. Readability
\* returns the content of one node of the document it was given and a title
\* it derives from the document's title or from a heading.
Readability(doc) ==
  {<<>>} \cup
  {<<[title |-> t, content |-> r]>> :
     t \in {DocumentTitle(doc), "Heading"}, r \in Body..Len(doc.nodes)}

\* the grave accent (U+0060), as one character of a text
Backtick == "U+0060"

\* the fence marker of codeBlockStyle 'fenced'
Fence == <<Backtick, Backtick, Backtick>>

\* the Markdown of one block with headingStyle 'atx' and codeBlockStyle
\* 'fenced': "## text" for <h2>, the code between two fence lines for
\* <pre><code>, the text itself for any other element

Markdown(el) ==
  CASE el.tag = "h2"  -> <<"#", "#", " ">> \o ElementText(el)
    [] el.tag = "pre" -> Fence \o <<"\n">> \o ElementText(el) \o <<"\n">> \o Fence
    [] OTHER          -> ElementText(el)

\* turndownService.turndown(article.content): the blocks of the article's
\* subtree, each followed by a blank line
RECURSIVE TurndownFrom(_, _, _)
TurndownFrom(nodes, r, i) ==
  IF i > Len(nodes) THEN <<>>
  ELSE (IF InSubtree(nodes, i, r)
        THEN Markdown(nodes[i]) \o <<"\n", "\n">> ELSE <<>>)
         \o TurndownFrom(nodes, r, i + 1)

turndown(html, content) == TurndownFrom(html.nodes, content, 1)

\* FallbackTitle with a slip: the default is left out
FallbackTitleNoDefault(html) == DocumentTitle(html)

\* dom.window.document.title || 'Untitled'
FallbackTitle(html) ==
  IF DocumentTitle(html) # "" THEN DocumentTitle(html) ELSE "Untitled"

\* Extracted with a slip: the fallback also runs when the article's
\* content is too short
ExtractedShortFallsBack(html, finalUrl, article) ==
  IF article # <<>>
       /\ Len(cleanText(turndown(html, article[1].content))) >= MIN_CONTENT_LENGTH
  THEN [title    |-> article[1].title,
        content  |-> cleanText(turndown(html, article[1].content)),
        fallback |-> FALSE]
  ELSE [title    |-> FallbackTitle(html),
        content  |-> fallbackExtraction(html, finalUrl),
        fallback |-> TRUE]

\* title and content as lines 83-101 set them; fallback records that the
\* else branch ran, that is, that fallbackExtraction was called
Extracted(html, finalUrl, article) ==
  IF article # <<>>
  THEN [title    |-> article[1].title,
        content  |-> cleanText(turndown(html, article[1].content)),
        fallback |-> FALSE]
  ELSE [title    |-> FallbackTitle(html),
        content  |-> fallbackExtraction(html, finalUrl),
        fallback |-> TRUE]

\* InsufficientContent with a slip: the threshold is one too low
InsufficientContentOffByOne(content) == Len(content) < MIN_CONTENT_LENGTH - 1

\* content.length < MIN_CONTENT_LENGTH
InsufficientContent(content) == Len(content) < MIN_CONTENT_LENGTH

\* InsufficientError with a slip: the two numbers of the message are swapped
InsufficientErrorSwapped(content) ==
  [kind |-> "insufficient-content", length |-> MIN_CONTENT_LENGTH,
   minimum |-> Len(content)]

\* new Error(`Insufficient content extracted (${content.length} chars,
\* minimum ${MIN_CONTENT_LENGTH})`)
InsufficientError(content) ==
  [kind |-> "insufficient-content", length |-> Len(content),
   minimum |-> MIN_CONTENT_LENGTH]

\* an error raised by puppeteer: the message carries no numbers of the script
PuppeteerError(kind) == [kind |-> kind, length |-> Null, minimum |-> Null]

\* the failures puppeteer raises after the connection was made: a failed
\* navigation (net::ERR_...) and a navigation timeout
PageFailures == {PuppeteerError("navigation"), PuppeteerError("timeout")}

\* the class of the thrown object: line 104 throws a plain Error, as
\* puppeteer does for a failed navigation; only its timeouts are TimeoutErrors
ErrorClass(err) == IF err.kind = "timeout" THEN "TimeoutError" ELSE "Error"

\* error.message.includes('connect')
MessageIncludesConnect(err) == err.kind = "connect"

\* the catch block of main, lines 151-165: the diagnostic it prints before
\* the error's message, and the exit code
Handling(err) ==
  [diagnostic |-> IF MessageIncludesConnect(err) THEN "could-not-connect"
                  ELSE "extraction-failed",
   code       |-> 1]

\* ------------------------------------------------------------------------
\* State
\* ------------------------------------------------------------------------

VARIABLES
  urls,      \* the URLs the callers of browser-content.js pass
  tabs,      \* the tabs of the Chrome instance on port 9222: [url, doc] each
  pc,        \* per invocation: the await main() stands at, or "exited"
  url,       \* main: url
  timer,     \* main: the global timeout is armed
  page,      \* main: the tab the invocation works on (index into tabs)
  finalUrl,  \* extractContent: finalUrl
  html,      \* extractContent: html, <<>> until page.content() returned it
  article,   \* extractContent: article
  fallback,  \* extractContent: fallbackExtraction was called
  title,     \* extractContent: title
  content,   \* extractContent: content
  error,     \* the error main caught, <<>> when none
  helpShown, \* stdout: showHelp printed the usage text
  printed,   \* stdout: the result main printed, <<>> when none
  stderr,    \* stderr: the diagnostics printed, in order
  exitCode,  \* process.exit(code), Null while the process runs
  ctStage,   \* cleanText on its own: "input", "once", "twice", or "idle"
  ctIn,      \* the string handed to cleanText
  ctOnce,    \* cleanText(ctIn)
  ctTwice    \* cleanText(cleanText(ctIn))

VARIABLES
  pkPc,             \* browser-pick.js: the await main stands at, or "exited"
  pkTabs,           \* the number of tabs the browser has open
  pkStdout,         \* browser-pick.js: what console.log printed, in order
  pkStderr,         \* browser-pick.js: what console.error printed, in order
  pkExit,           \* browser-pick.js: process.exit(code), Null while it runs
  listeners,        \* the listeners the picker has registered on document
  bannerIn,         \* the banner is in the document
  styleIn,          \* the injected <style> is in the document
  selectedElements, \* PICKER_SCRIPT: selectedElements
  currentHighlight, \* PICKER_SCRIPT: currentHighlight, <<>> for null
  highlightClass,   \* the elements that carry the class picker-highlight
  selectedClass,    \* the elements that carry the class picker-selected
  resolved,         \* the value the picker promise resolved with, <<>> before
  resolveCalls,     \* the number of calls of resolve
  events            \* the click and key events dispatched since the picker ran

VARIABLES
  srPc,         \* browser-search.js: the await main stands at, or "exited"
  srArgs,       \* main: args
  numResults,   \* main: numResults
  fetchContent, \* main: fetchContent
  srTimer,      \* main: the global timeout is armed
  srTabs,       \* the number of tabs the browser has open
  srResults,    \* performSearch: limitedResults
  srNext,       \* performSearch: the result the loop of line 116 stands at
  srHelp,       \* stdout: showHelp printed the usage text
  srStdout,     \* stdout: the results main printed, <<>> when none
  srStderr,     \* stderr: the diagnostics printed, in order
  srExit        \* process.exit(code), Null while the process runs

VARIABLES
  tsScript,         \* which of the active-tab scripts runs
  tsPc,             \* where its main stands
  tsArgs,           \* its process.argv.slice(2)
  tsTabs,           \* the number of open tabs of the browser
  tsFile,           \* browser-screenshot.js: filepath
  tsStdout,         \* what console.log printed, in order
  tsStderr,         \* what console.error printed, in order
  tsExit            \* the exit code, Null while the script runs

VARIABLES
  stPc,             \* browser-start.js: where main stands
  oldChrome,        \* the Chrome that ran on the port before the script
  newChrome,        \* the Chrome the script spawned
  oldAtSpawn,       \* the state of the earlier instance at the call of spawn
  stI,              \* waitForChrome: i
  stProbes,         \* the number of fetches of /json/version made
  stAnswered,       \* the instance that answered the probe with ok
  stReady,          \* isReady, <<>> before waitForChrome returns
  stStdout,         \* what console.log printed, in order
  stStderr,         \* what console.error printed, in order
  stExit            \* the exit code, Null while the script runs

ctVars == <<ctStage, ctIn, ctOnce, ctTwice>>

searchVars ==
  <<srPc, srArgs, numResults, fetchContent, srTimer, srTabs, srResults, srNext,
    srHelp, srStdout, srStderr, srExit>>

pickMain == <<pkPc, pkTabs, pkStdout, pkStderr, pkExit>>

pickPage ==
  <<listeners, bannerIn, styleIn, selectedElements, currentHighlight,
    highlightClass, selectedClass, resolved, resolveCalls>>

pickVars == <<pickMain, pickPage, events>>

extractVars == <<finalUrl, html, article, fallback, title, content>>

outVars == <<helpShown, printed, stderr, exitCode>>

runVars == <<urls, tabs, pc, url, timer, page, extractVars, error, outVars>>

tabVars ==
  <<tsScript, tsPc, tsArgs, tsTabs, tsFile, tsStdout, tsStderr, tsExit>>

startVars ==
  <<stPc, oldChrome, newChrome, oldAtSpawn, stI, stProbes, stAnswered, stReady,
    stStdout, stStderr, stExit>>

vars == <<runVars, ctVars, pickVars, searchVars, tabVars, startVars>>

\* ------------------------------------------------------------------------
\* The pages the browser can load
\* ------------------------------------------------------------------------

El(tag, class, id, role, shape) ==
  [tag |-> tag, class |-> class, id |-> id, role |-> role, shape |-> shape]

\* the elements a generated document is built from
ElementChoices ==
  { El("main", "", "", "", "long"),
    El("main", "", "", "", "below"),
    El("article", "", "", "", "long"),
    El("article", "", "", "", "padded"),
    El("div", "", "", "main", "long"),
    El("div", "content", "", "", "long"),
    El("div", "", "content", "", "long"),
    El("nav", "", "", "", "long"),
    El("div", "sidebar", "", "", "long"),
    El("p", "", "", "", "short") }

\* the letter the text of the i-th element is written in
Letters == <<"x", "y", "z", "w", "v">>

Place(el, parent, letter) ==
  [tag |-> el.tag, class |-> el.class, id |-> el.id, role |-> el.role,
   parent |-> parent, text |-> [shape |-> el.shape, letter |-> letter]]

\* the parent assignments of n elements listed in document order: the parent
\* of an element is <body>, the element before it or an ancestor of that one
RECURSIVE IsAncestorOrSelf(_, _, _)
IsAncestorOrSelf(par, a, i) ==
  \/ a = i
  \/ i # Body /\ IsAncestorOrSelf(par, a, par[i])

TreeShapes(n) ==
  {par \in [1..n -> Body..(n - 1)] :
     \A i \in 1..n : IF i = 1 THEN par[i] = Body
                     ELSE IsAncestorOrSelf(par, par[i], i - 1)}

NodesOf(n) ==
  {[i \in 1..n |-> Place(ch[i], par[i], Letters[i])] :
     ch \in [1..n -> ElementChoices], par \in TreeShapes(n)}

DocTitles == {"", "Doc Title"}

Docs ==
  {[title |-> t, nodes |-> ns] :
     t \in DocTitles, ns \in UNION {NodesOf(n) : n \in 0..MaxNodes}}

BlankDoc == [title |-> "", nodes |-> <<>>]

BlankTab == [url |-> "about:blank", doc |-> BlankDoc]

AnyUrl == "https://any.test/"

UrlA == "https://a.test/"

UrlB == "https://b.test/"

DocA ==
  [title |-> "A", nodes |-> <<Place(El("main", "", "", "", "long"), Body, "p")>>]

DocB ==
  [title |-> "B", nodes |-> <<Place(El("article", "", "", "", "long"), Body, "q")>>]

UrlMd == "https://md.test/"

\* the blocks of an article: a heading, a paragraph, a code block
MdBlocks ==
  { El("h2", "", "", "", "short"),
    El("p", "", "", "", "long"),
    El("pre", "", "", "", "short") }

\* documents whose <body> holds one <div> of up to MaxBlocks blocks
MdDocs ==
  {[title |-> "Md",
    nodes |-> <<Place(El("div", "", "", "", "none"), Body, Letters[1])>>
                \o [i \in DOMAIN bl |-> Place(bl[i], 1, Letters[i + 1])]] :
     bl \in UNION {[1..n -> MdBlocks] : n \in 1..MaxBlocks}}

\* the documents a navigation to u can load
PagesAt(u) ==
  CASE u = UrlA  -> {DocA}
    [] u = UrlB  -> {DocB}
    [] u = UrlMd -> MdDocs
    [] OTHER    -> Docs

\* ------------------------------------------------------------------------
\* browser-content.js: main
\* ------------------------------------------------------------------------

Procs == DOMAIN pc

Flags == {"--help", "--verbose"}

\* arg.startsWith('--')
StartsWithDashes(arg) == arg \in Flags

\* process.argv.slice(2), over the flags and the URLs of the callers
ArgLists == UNION {[1..n -> Flags \cup urls] : n \in 0..MaxArgs}

\* args.find(arg => !arg.startsWith('--')): <<>> for undefined
FindUrl(args) ==
  LET found == {i \in 1..Len(args) : ~StartsWithDashes(args[i])} IN
  IF found = {} THEN <<>> ELSE <<args[Min(found)]>>

Includes(args, arg) == \E i \in 1..Len(args) : args[i] = arg

\* process.exit(code)
Exit(p, code) ==
  /\ pc' = [pc EXCEPT ![p] = "exited"]
  /\ exitCode' = [exitCode EXCEPT ![p] = code]

\* lines 111-128: the arguments, up to the first await
Start(p) ==
  /\ pc[p] = "start"
  /\ \E args \in ArgLists :
       IF Includes(args, "--help") \/ Len(args) = 0
       THEN \* showHelp()
            /\ helpShown' = [helpShown EXCEPT ![p] = TRUE]
            /\ Exit(p, 0)
            /\ UNCHANGED <<url, timer, stderr>>
       ELSE IF FindUrl(args) = <<>>
       THEN \* console.error('Error: URL is required'); showHelp()
            /\ stderr' = [stderr EXCEPT ![p] = Append(@, "url-required")]
            /\ helpShown' = [helpShown EXCEPT ![p] = TRUE]
            /\ Exit(p, 0)
            /\ UNCHANGED <<url, timer>>
       ELSE /\ url' = [url EXCEPT ![p] = FindUrl(args)[1]]
            /\ timer' = [timer EXCEPT ![p] = TRUE]
            /\ pc' = [pc EXCEPT ![p] = "connect"]
            /\ UNCHANGED <<helpShown, stderr, exitCode>>
  /\ UNCHANGED <<ctVars, pickVars, searchVars, tabVars, startVars, urls, tabs, page, extractVars, error, printed>>

\* puppeteer.connect resolves
ConnectOk(p) ==
  /\ pc[p] = "connect"
  /\ pc' = [pc EXCEPT ![p] = "pages"]
  /\ UNCHANGED <<ctVars, pickVars, searchVars, tabVars, startVars, urls, tabs, url, timer, page, extractVars, error, outVars>>

\* puppeteer.connect rejects: the catch block, browser being undefined
ConnectFail(p) ==
  /\ pc[p] = "connect"
  /\ timer' = [timer EXCEPT ![p] = FALSE]
  /\ error' = [error EXCEPT ![p] = <<PuppeteerError("connect")>>]
  /\ stderr' = [stderr EXCEPT ![p] =
                  Append(@, Handling(PuppeteerError("connect")).diagnostic)]
  /\ Exit(p, Handling(PuppeteerError("connect")).code)
  /\ UNCHANGED <<ctVars, pickVars, searchVars, tabVars, startVars, urls, tabs, url, page, extractVars, helpShown, printed>>

\* browser.pages() resolves: pages[0] when there is one
Pages(p) ==
  /\ pc[p] = "pages"
  /\ IF tabs # <<>>
     THEN /\ page' = [page EXCEPT ![p] = 1]
          /\ pc' = [pc EXCEPT ![p] = "goto"]
     ELSE /\ pc' = [pc EXCEPT ![p] = "newPage"]
          /\ UNCHANGED page
  /\ UNCHANGED <<ctVars, pickVars, searchVars, tabVars, startVars, urls, tabs, url, timer, extractVars, error, outVars>>

\* browser.newPage() resolves
NewPage(p) ==
  /\ pc[p] = "newPage"
  /\ tabs' = Append(tabs, BlankTab)
  /\ page' = [page EXCEPT ![p] = Len(tabs) + 1]
  /\ pc' = [pc EXCEPT ![p] = "goto"]
  /\ UNCHANGED <<ctVars, pickVars, searchVars, tabVars, startVars, urls, url, timer, extractVars, error, outVars>>

\* page.goto(url) resolves: the tab has loaded a document of url;
\* finalUrl = page.url()
GotoOk(p) ==
  /\ pc[p] = "goto"
  /\ \E doc \in PagesAt(url[p]) :
       tabs' = [tabs EXCEPT ![page[p]] = [url |-> url[p], doc |-> doc]]
  /\ finalUrl' = [finalUrl EXCEPT ![p] = url[p]]
  /\ pc' = [pc EXCEPT ![p] = "content"]
  /\ UNCHANGED <<ctVars, pickVars, searchVars, tabVars, startVars, urls, url, timer, page, html, article, fallback, title,
                 content, error, outVars>>

\* the catch block of main for an error other than a connection error, up
\* to its await browser.disconnect()
Caught(p, err) ==
  /\ timer' = [timer EXCEPT ![p] = FALSE]
  /\ error' = [error EXCEPT ![p] = <<err>>]
  /\ stderr' = [stderr EXCEPT ![p] = Append(@, Handling(err).diagnostic)]
  /\ pc' = [pc EXCEPT ![p] = "failed"]

\* page.goto or page.content rejects (navigation timeout, network error,
\* execution context destroyed)
PageFail(p) ==
  /\ pc[p] \in {"goto", "content"}
  /\ \E err \in PageFailures : Caught(p, err)
  /\ UNCHANGED <<ctVars, pickVars, searchVars, tabVars, startVars, urls, tabs, url, page, extractVars, helpShown, printed,
                 exitCode>>

\* page.content() resolves; lines 79-107 of extractContent and lines 142-147
\* or 152-160 of main run without another await
Extract(p) ==
  /\ pc[p] = "content"
  /\ LET h == tabs[page[p]].doc IN
     \E a \in Readability(h) :
       LET x == Extracted(h, finalUrl[p], a) IN
       /\ html' = [html EXCEPT ![p] = <<h>>]
       /\ article' = [article EXCEPT ![p] = a]
       /\ fallback' = [fallback EXCEPT ![p] = x.fallback]
       /\ title' = [title EXCEPT ![p] = x.title]
       /\ content' = [content EXCEPT ![p] = x.content]
       /\ IF InsufficientContent(x.content)
          THEN /\ Caught(p, InsufficientError(x.content))
               /\ UNCHANGED printed
          ELSE /\ printed' = [printed EXCEPT ![p] =
                    <<[finalUrl |-> finalUrl[p], title |-> x.title,
                       content |-> x.content]>>]
               /\ timer' = [timer EXCEPT ![p] = FALSE]
               /\ pc' = [pc EXCEPT ![p] = "done"]
               /\ UNCHANGED <<error, stderr>>
  /\ UNCHANGED <<ctVars, pickVars, searchVars, tabVars, startVars, urls, tabs, url, page, finalUrl, helpShown, exitCode>>

\* lines 148-149: browser.disconnect() resolves, process.exit(0)
ExitSuccess(p) ==
  /\ pc[p] = "done"
  /\ Exit(p, 0)
  /\ UNCHANGED <<ctVars, pickVars, searchVars, tabVars, startVars, urls, tabs, url, timer, page, extractVars, error, helpShown,
                 printed, stderr>>

\* lines 162-165: browser.disconnect() resolves, process.exit(1)
ExitFailure(p) ==
  /\ pc[p] = "failed"
  /\ Exit(p, Handling(error[p][1]).code)
  /\ UNCHANGED <<ctVars, pickVars, searchVars, tabVars, startVars, urls, tabs, url, timer, page, extractVars, error, helpShown,
                 printed, stderr>>

\* lines 125-128: the global timeout fires while main awaits the browser
GlobalTimeout(p) ==
  /\ timer[p]
  /\ pc[p] \in {"connect", "pages", "newPage", "goto", "content"}
  /\ stderr' = [stderr EXCEPT ![p] = Append(@, "global-timeout")]
  /\ Exit(p, 1)
  /\ UNCHANGED <<ctVars, pickVars, searchVars, tabVars, startVars, urls, tabs, url, timer, page, extractVars, error, helpShown,
                 printed>>

\* ------------------------------------------------------------------------
\* browser-pick.js: the picker script that runs in the page
\* ------------------------------------------------------------------------

\* the elements of the page the picker runs on
PageElements == {"A", "B", "C"}

\* the banner the picker appends to <body>
Banner == "banner"

\* what an event can have as its target
Targets == PageElements \cup {Banner}

Keys == {"Enter", "Escape", "Tab"}

\* the modifier keys held during a click
Modifiers == {"none", "meta", "ctrl"}

AllListeners == {"mouseover", "mouseout", "click", "keydown"}

\* getElementInfo(element): the description that identifies the element
getElementInfo(element) == [selector |-> element]

\* array.indexOf(x), counted from 1: 0 when x is not in the array
IndexOf(array, x) ==
  LET hits == {i \in 1..Len(array) : array[i] = x} IN
  IF hits = {} THEN 0 ELSE Min(hits)

\* InArray with a slip: nothing is ever found
InArrayNever(array, x) == FALSE

\* array.includes(x)
InArray(array, x) == IndexOf(array, x) > 0

\* array.splice(index, 1)
Splice(array, index) ==
  SubSeq(array, 1, index - 1) \o SubSeq(array, index + 1, Len(array))

\* IsMultiSelect with a slip: every click is taken as a multi-select
IsMultiSelectAlways(modifier) == TRUE

\* e.metaKey || e.ctrlKey
IsMultiSelect(modifier) == modifier \in {"meta", "ctrl"}

\* Toggle with a slip: an element that is selected is pushed once more
TogglePushOnly(array, target) == Append(array, target)

\* lines 170-177: the selection after a Cmd/Ctrl+click on target
Toggle(array, target) ==
  IF IndexOf(array, target) > 0
  THEN Splice(array, IndexOf(array, target))
  ELSE Append(array, target)

\* the values the promise resolves with: the info of one element, an array
\* of infos, or null
OneResult(info) == [kind |-> "object", infos |-> <<info>>]

ArrayResult(infos) == [kind |-> "array", infos |-> infos]

NullResult == [kind |-> "null", infos |-> <<>>]

\* KeyResult with a slip: Escape resolves as Enter does
KeyResultEscapeAsEnter(key, array) ==
  ArrayResult([i \in DOMAIN array |-> getElementInfo(array[i])])

\* lines 199 and 207: what Enter and Escape resolve with
KeyResult(key, array) ==
  IF key = "Enter"
  THEN ArrayResult([i \in DOMAIN array |-> getElementInfo(array[i])])
  ELSE NullResult

\* the entry of the event log for a click and for a key
ClickEvent(target, multi) == [type |-> "click", target |-> target, multi |-> multi]

KeyEvent(key) == [type |-> "key", target |-> key, multi |-> FALSE]

\* the page is one the picker script has run in: its promise is pending or
\* was resolved
PickerRan == pkPc = "picking" \/ resolved # <<>>

\* an event is dispatched on the page
Dispatch(event) ==
  /\ PickerRan
  /\ Len(events) < MaxEvents
  /\ events' = Append(events, event)

\* Finish with a slip: the keydown listener stays registered
FinishKeepsKeydown(value) ==
  /\ listeners' = listeners \ (AllListeners \ {"keydown"})
  /\ highlightClass' = {}
  /\ selectedClass' = {}
  /\ bannerIn' = FALSE
  /\ styleIn' = FALSE
  /\ resolved' = IF resolved = <<>> THEN <<value>> ELSE resolved
  /\ resolveCalls' = resolveCalls + 1
  /\ UNCHANGED <<selectedElements, currentHighlight>>

\* the four removeEventListener calls, cleanup() and resolve(value)
Finish(value) ==
  /\ listeners' = listeners \ AllListeners
  /\ highlightClass' = {}
  /\ selectedClass' = {}
  /\ bannerIn' = FALSE
  /\ styleIn' = FALSE
  /\ resolved' = IF resolved = <<>> THEN <<value>> ELSE resolved
  /\ resolveCalls' = resolveCalls + 1
  /\ UNCHANGED <<selectedElements, currentHighlight>>

\* lines 41-75, 158-159, 211-212: the script builds style and banner and
\* registers its listeners; page.evaluate waits for the promise
PickerScript ==
  /\ pkPc = "evaluate"
  /\ pkPc' = "picking"
  /\ selectedElements' = <<>>
  /\ currentHighlight' = <<>>
  /\ styleIn' = TRUE
  /\ bannerIn' = TRUE
  /\ listeners' = AllListeners
  /\ UNCHANGED <<pkTabs, pkStdout, pkStderr, pkExit, highlightClass,
                 selectedClass, resolved, resolveCalls, events>>
  /\ UNCHANGED <<runVars, ctVars, searchVars, tabVars, startVars>>

\* handleMouseOver, lines 126-137
MouseOver(target) ==
  /\ PickerRan
  /\ "mouseover" \in listeners
  /\ target = Banner => bannerIn
  /\ IF target = Banner
     THEN UNCHANGED <<highlightClass, currentHighlight>>
     ELSE LET cleared == IF currentHighlight # <<>> /\ currentHighlight[1] # target
                         THEN highlightClass \ {currentHighlight[1]}
                         ELSE highlightClass
          IN  IF ~InArray(selectedElements, target)
              THEN /\ highlightClass' = cleared \cup {target}
                   /\ currentHighlight' = <<target>>
              ELSE /\ highlightClass' = cleared
                   /\ UNCHANGED currentHighlight
  /\ UNCHANGED <<pickMain, listeners, bannerIn, styleIn, selectedElements,
                 selectedClass, resolved, resolveCalls, events>>
  /\ UNCHANGED <<runVars, ctVars, searchVars, tabVars, startVars>>

\* handleMouseOut, lines 139-143
MouseOut(target) ==
  /\ PickerRan
  /\ "mouseout" \in listeners
  /\ target = Banner => bannerIn
  /\ highlightClass' = IF target # Banner THEN highlightClass \ {target}
                       ELSE highlightClass
  /\ UNCHANGED <<pickMain, listeners, bannerIn, styleIn, selectedElements,
                 currentHighlight, selectedClass, resolved, resolveCalls, events>>
  /\ UNCHANGED <<runVars, ctVars, searchVars, tabVars, startVars>>

\* a click on target; handleClick, lines 162-189, when it is registered
Click(target, modifier) ==
  /\ Dispatch(ClickEvent(target, modifier # "none"))
  /\ target = Banner => bannerIn
  /\ IF "click" \notin listeners \/ target = Banner
     THEN UNCHANGED pickPage
     ELSE IF IsMultiSelect(modifier)
     THEN /\ selectedElements' = Toggle(selectedElements, target)
          /\ selectedClass' = IF IndexOf(selectedElements, target) > 0
                              THEN selectedClass \ {target}
                              ELSE selectedClass \cup {target}
          /\ highlightClass' = highlightClass \ {target}
          /\ UNCHANGED <<listeners, bannerIn, styleIn, currentHighlight,
                         resolved, resolveCalls>>
     ELSE Finish(OneResult(getElementInfo(target)))
  /\ UNCHANGED pickMain
  /\ UNCHANGED <<runVars, ctVars, searchVars, tabVars, startVars>>

\* a key is pressed; handleKeyDown, lines 191-209, when it is registered
KeyDown(key) ==
  /\ Dispatch(KeyEvent(key))
  /\ IF "keydown" \in listeners /\ key \in {"Enter", "Escape"}
     THEN Finish(KeyResult(key, selectedElements))
     ELSE UNCHANGED pickPage
  /\ UNCHANGED pickMain
  /\ UNCHANGED <<runVars, ctVars, searchVars, tabVars, startVars>>

\* ------------------------------------------------------------------------
\* browser-pick.js: main
\* ------------------------------------------------------------------------

\* the lines of stdout: the usage text, "Selection cancelled", or the block
\* of one element, with its index in brackets when an array is printed
HelpLine == [text |-> "usage", index |-> Null, info |-> getElementInfo("")]

CancelledLine ==
  [text |-> "Selection cancelled", index |-> Null, info |-> getElementInfo("")]

\* formatElementInfo(info), lines 217-240
formatElementInfo(result) ==
  IF result.kind = "array"
  THEN [i \in DOMAIN result.infos |->
          [text |-> "element", index |-> i - 1, info |-> result.infos[i]]]
  ELSE <<[text |-> "element", index |-> Null, info |-> result.infos[1]]>>

\* lines 243-255: the arguments, up to the await of puppeteer.connect
PickStart ==
  /\ pkPc = "start"
  /\ \E args \in {<<>>, <<"--help">>} :
       IF Includes(args, "--help")
       THEN /\ pkStdout' = Append(pkStdout, HelpLine)
            /\ pkPc' = "exited"
            /\ pkExit' = 0
       ELSE /\ pkPc' = "connect"
            /\ UNCHANGED <<pkStdout, pkExit>>
  /\ UNCHANGED <<pkTabs, pkStderr, pickPage, events>>
  /\ UNCHANGED <<runVars, ctVars, searchVars, tabVars, startVars>>

\* puppeteer.connect resolves
PickConnectOk ==
  /\ pkPc = "connect"
  /\ pkPc' = "pages"
  /\ UNCHANGED <<pkTabs, pkStdout, pkStderr, pkExit, pickPage, events>>
  /\ UNCHANGED <<runVars, ctVars, searchVars, tabVars, startVars>>

\* puppeteer.connect rejects: lines 277-289 with browser undefined
PickConnectFail ==
  /\ pkPc = "connect"
  /\ pkStderr' = Append(pkStderr, "could-not-connect")
  /\ pkPc' = "exited"
  /\ pkExit' = 1
  /\ UNCHANGED <<pkTabs, pkStdout, pickPage, events>>
  /\ UNCHANGED <<runVars, ctVars, searchVars, tabVars, startVars>>

\* browser.pages() resolves; lines 258-264, and lines 277-287 without a page
PickPages ==
  /\ pkPc = "pages"
  /\ IF pkTabs = 0
     THEN /\ pkStderr' = Append(pkStderr, "picker-failed")
          /\ pkPc' = "failed"
     ELSE /\ pkPc' = "evaluate"
          /\ UNCHANGED pkStderr
  /\ UNCHANGED <<pkTabs, pkStdout, pkExit, pickPage, events>>
  /\ UNCHANGED <<runVars, ctVars, searchVars, tabVars, startVars>>

\* page.evaluate rejects while the picker waits: the page navigated away,
\* which discards the document with the picker in it; lines 277-287
PickEvaluateFail ==
  /\ pkPc \in {"evaluate", "picking"}
  /\ resolved = <<>>
  /\ pkStderr' = Append(pkStderr, "picker-failed")
  /\ pkPc' = "failed"
  /\ listeners' = {}
  /\ bannerIn' = FALSE
  /\ styleIn' = FALSE
  /\ highlightClass' = {}
  /\ selectedClass' = {}
  /\ UNCHANGED <<pkTabs, pkStdout, pkExit, selectedElements, currentHighlight,
                 resolved, resolveCalls, events>>
  /\ UNCHANGED <<runVars, ctVars, searchVars, tabVars, startVars>>

\* page.evaluate resolves with the value of the promise; lines 266-274 up
\* to the await of browser.disconnect
PickEvaluated ==
  /\ pkPc = "picking"
  /\ resolved # <<>>
  /\ pkStdout' = IF resolved[1].kind = "null"
                 THEN Append(pkStdout, CancelledLine)
                 ELSE pkStdout \o formatElementInfo(resolved[1])
  /\ pkPc' = "disconnect"
  /\ UNCHANGED <<pkTabs, pkStderr, pkExit, pickPage, events>>
  /\ UNCHANGED <<runVars, ctVars, searchVars, tabVars, startVars>>

\* lines 268-269 and 274-275: browser.disconnect() resolves, process.exit(0)
PickExitSuccess ==
  /\ pkPc = "disconnect"
  /\ pkPc' = "exited"
  /\ pkExit' = 0
  /\ UNCHANGED <<pkTabs, pkStdout, pkStderr, pickPage, events>>
  /\ UNCHANGED <<runVars, ctVars, searchVars, tabVars, startVars>>

\* lines 286-289: browser.disconnect() resolves, process.exit(1)
PickExitFailure ==
  /\ pkPc = "failed"
  /\ pkPc' = "exited"
  /\ pkExit' = 1
  /\ UNCHANGED <<pkTabs, pkStdout, pkStderr, pickPage, events>>
  /\ UNCHANGED <<runVars, ctVars, searchVars, tabVars, startVars>>

\* browser-pick.js is not running
PickIdle ==
  /\ pkPc = "idle"
  /\ pkTabs = 0
  /\ pkStdout = <<>>
  /\ pkStderr = <<>>
  /\ pkExit = Null
  /\ listeners = {}
  /\ bannerIn = FALSE
  /\ styleIn = FALSE
  /\ selectedElements = <<>>
  /\ currentHighlight = <<>>
  /\ highlightClass = {}
  /\ selectedClass = {}
  /\ resolved = <<>>
  /\ resolveCalls = 0
  /\ events = <<>>

\* ------------------------------------------------------------------------
\* browser-search.js
\* ------------------------------------------------------------------------

MAX_RESULTS == 100

DEFAULT_RESULTS == 5

\* an argument of the command line is a sequence of characters
HelpArg == <<"-", "-", "h", "e", "l", "p">>

ContentArg == <<"-", "-", "c", "o", "n", "t", "e", "n", "t">>

NArg == <<"-", "n">>

QueryArg == <<"q">>

\* the characters of a value given after -n
NChars == {"-", "0", "1", "9", "a"}

\* the values given after -n
NValues == UNION {[1..k -> NChars] : k \in 1..MaxDigits}

\* process.argv.slice(2)
SearchArgLists ==
  {<<>>, <<HelpArg>>, <<QueryArg>>, <<QueryArg, ContentArg>>, <<QueryArg, NArg>>}
    \cup {<<QueryArg, NArg, v>> : v \in NValues}
    \cup {<<NArg, v>> : v \in NValues}

Digits == {"0", "1", "9"}

DigitValue(c) == CASE c = "0" -> 0 [] c = "1" -> 1 [] c = "9" -> 9

\* the value of the decimal digits of s
RECURSIVE Decimal(_)
Decimal(s) ==
  IF s = <<>> THEN 0
  ELSE 10 * Decimal(SubSeq(s, 1, Len(s) - 1)) + DigitValue(s[Len(s)])

\* the end of the run of digits of s that begins at i, i - 1 when s has no
\* digit at i
RECURSIVE DigitsEnd(_, _)
DigitsEnd(s, i) ==
  IF i <= Len(s) /\ s[i] \in Digits THEN DigitsEnd(s, i + 1) ELSE i - 1

\* parseInt(s): an optional sign and the longest run of digits that follows
\* it; NaN, written <<>>, when there is no digit there; <<>> stands for
\* undefined as the argument
ParseInt(s) ==
  LET first == IF s # <<>> /\ s[1] = "-" THEN 2 ELSE 1
      last  == DigitsEnd(s, first)
      sign  == IF first = 2 THEN -1 ELSE 1
  IN  IF last < first THEN <<>>
      ELSE <<sign * Decimal(SubSeq(s, first, last))>>

\* x || d, for x the value of parseInt: NaN and 0 are falsy
OrDefault(x, d) == IF x = <<>> \/ x[1] = 0 THEN d ELSE x[1]

\* Math.min(a, b)
MathMin(a, b) == IF a < b THEN a ELSE b

\* args[i] counted from 1, <<>> for undefined
ArgAt(args, i) == IF i \in 1..Len(args) THEN args[i] ELSE <<>>

\* line 150: nIndex > -1 ? Math.min(parseInt(args[nIndex + 1]) ||
\* DEFAULT_RESULTS, MAX_RESULTS) : DEFAULT_RESULTS
NumResults(args) ==
  IF IndexOf(args, NArg) > 0
  THEN MathMin(OrDefault(ParseInt(ArgAt(args, IndexOf(args, NArg) + 1)),
                         DEFAULT_RESULTS),
               MAX_RESULTS)
  ELSE DEFAULT_RESULTS

\* arg.startsWith('-')
StartsWithDash(arg) == arg # <<>> /\ arg[1] = "-"

\* args.find(arg => !arg.startsWith('-')): <<>> for undefined
FindQuery(args) ==
  LET found == {i \in 1..Len(args) : ~StartsWithDash(args[i])} IN
  IF found = {} THEN <<>> ELSE <<args[Min(found)]>>

\* array.slice(0, end): a negative end counts from the end of the array
Slice(array, end) ==
  LET stop == IF end < 0 THEN Max({Len(array) + end, 0})
              ELSE MathMin(end, Len(array))
  IN  SubSeq(array, 1, stop)

\* the results page.evaluate returns for n result elements of the page
NoContent == [kind |-> "none", length |-> 0]

Hits(n) == [i \in 1..n |-> [hit |-> i, content |-> NoContent]]

\* null, a text of n characters, and '(content extraction failed)'
NullContent == [kind |-> "null", length |-> 0]

Text(n) == [kind |-> "text", length |-> n]

Placeholder == [kind |-> "placeholder", length |-> 27]

\* the end of .substring(0, 5000)
ContentLimit == 5000

\* Substring with a slip: the text is not cut
SubstringNoCap(length, end) == length

\* the length of text.substring(0, end) for a text of that length
Substring(length, end) == Min({length, end})

\* the lengths of cleanText(markdown) for the pages of the results
MarkdownLengths == {0, 1, ContentLimit, MaxMarkdown}

\* what extractContent does: it returns null after the warning of its catch
\* block, null without a warning when Readability finds no article, or
\* the cleaned Markdown cut to 5000 characters
ContentOutcomes ==
  {[warned |-> TRUE, value |-> NullContent], [warned |-> FALSE, value |-> NullContent]}
    \cup {[warned |-> FALSE, value |-> Text(Substring(n, ContentLimit))] :
            n \in MarkdownLengths}

\* content || '(content extraction failed)'
ContentOr(extracted) ==
  IF extracted.kind = "null" \/ extracted.length = 0 THEN Placeholder ELSE extracted

\* formatResults(results, includeContent), lines 125-139
formatResults(results, includeContent) ==
  [i \in DOMAIN results |->
     [index   |-> i - 1,
      hit     |-> results[i].hit,
      content |-> IF includeContent THEN results[i].content ELSE NoContent]]

\* lines 142-162: the arguments, up to the await of puppeteer.connect
SearchStart ==
  /\ srPc = "start"
  /\ \E args \in SearchArgLists :
       /\ srArgs' = args
       /\ IF Includes(args, HelpArg) \/ Len(args) = 0
          THEN /\ srHelp' = TRUE
               /\ srPc' = "exited"
               /\ srExit' = 0
               /\ UNCHANGED <<numResults, fetchContent, srTimer, srStderr>>
          ELSE /\ numResults' = NumResults(args)
               /\ fetchContent' = Includes(args, ContentArg)
               /\ IF FindQuery(args) = <<>>
                  THEN /\ srStderr' = Append(srStderr, "query-required")
                       /\ srHelp' = TRUE
                       /\ srPc' = "exited"
                       /\ srExit' = 0
                       /\ UNCHANGED srTimer
                  ELSE /\ srTimer' = TRUE
                       /\ srPc' = "connect"
                       /\ UNCHANGED <<srHelp, srStderr, srExit>>
  /\ UNCHANGED <<srTabs, srResults, srNext, srStdout>>
  /\ UNCHANGED <<runVars, ctVars, pickVars, tabVars, startVars>>

\* puppeteer.connect resolves
SearchConnectOk ==
  /\ srPc = "connect"
  /\ srPc' = "pages"
  /\ UNCHANGED <<srArgs, numResults, fetchContent, srTimer, srTabs, srResults,
                 srNext, srHelp, srStdout, srStderr, srExit>>
  /\ UNCHANGED <<runVars, ctVars, pickVars, tabVars, startVars>>

\* puppeteer.connect rejects: lines 184-198 with browser undefined
SearchConnectFail ==
  /\ srPc = "connect"
  /\ srTimer' = FALSE
  /\ srStderr' = Append(srStderr, "could-not-connect")
  /\ srPc' = "exited"
  /\ srExit' = 1
  /\ UNCHANGED <<srArgs, numResults, fetchContent, srTabs, srResults, srNext,
                 srHelp, srStdout>>
  /\ UNCHANGED <<runVars, ctVars, pickVars, tabVars, startVars>>

\* browser.pages() resolves; with a page, line 174 and the page.goto of
\* performSearch follow
SearchPages ==
  /\ srPc = "pages"
  /\ IF srTabs > 0
     THEN /\ srStderr' = Append(srStderr, "searching")
          /\ srPc' = "goto"
     ELSE /\ srPc' = "newPage"
          /\ UNCHANGED srStderr
  /\ UNCHANGED <<srArgs, numResults, fetchContent, srTimer, srTabs, srResults,
                 srNext, srHelp, srStdout, srExit>>
  /\ UNCHANGED <<runVars, ctVars, pickVars, tabVars, startVars>>

\* browser.newPage() resolves; line 174 and the page.goto of performSearch
SearchNewPage ==
  /\ srPc = "newPage"
  /\ srTabs' = srTabs + 1
  /\ srStderr' = Append(srStderr, "searching")
  /\ srPc' = "goto"
  /\ UNCHANGED <<srArgs, numResults, fetchContent, srTimer, srResults, srNext,
                 srHelp, srStdout, srExit>>
  /\ UNCHANGED <<runVars, ctVars, pickVars, tabVars, startVars>>

\* page.goto(searchUrl) resolves
SearchGotoOk ==
  /\ srPc = "goto"
  /\ srPc' = "evaluate"
  /\ UNCHANGED <<srArgs, numResults, fetchContent, srTimer, srTabs, srResults,
                 srNext, srHelp, srStdout, srStderr, srExit>>
  /\ UNCHANGED <<runVars, ctVars, pickVars, tabVars, startVars>>

\* lines 178-180: console.log(formatResults(results, fetchContent)),
\* clearTimeout, up to the await of browser.disconnect
PrintResults(results) ==
  /\ srStdout' = <<formatResults(results, fetchContent)>>
  /\ srTimer' = FALSE
  /\ srPc' = "disconnect"

\* page.evaluate resolves with the results of the page; lines 113-122, and
\* lines 178-180 when no content is fetched
SearchEvaluated ==
  /\ srPc = "evaluate"
  /\ \E n \in 0..MaxHits :
       LET limitedResults == Slice(Hits(n), numResults) IN
       /\ srResults' = limitedResults
       /\ IF fetchContent /\ limitedResults # <<>>
          THEN /\ srNext' = 1
               /\ srPc' = "fetch"
               /\ UNCHANGED <<srTimer, srStdout>>
          ELSE /\ PrintResults(limitedResults)
               /\ UNCHANGED srNext
  /\ UNCHANGED <<srArgs, numResults, fetchContent, srTabs, srHelp, srStderr, srExit>>
  /\ UNCHANGED <<runVars, ctVars, pickVars, tabVars, startVars>>

\* extractContent(page, result.link) returns for the next result, lines
\* 116-119; after the last one lines 178-180 follow
SearchFetch ==
  /\ srPc = "fetch"
  /\ \E extracted \in ContentOutcomes :
       LET results == [srResults EXCEPT
                         ![srNext].content = ContentOr(extracted.value)] IN
       /\ srResults' = results
       /\ srStderr' = IF extracted.warned THEN Append(srStderr, "warning")
                      ELSE srStderr
       /\ IF srNext < Len(srResults)
          THEN /\ srNext' = srNext + 1
               /\ UNCHANGED <<srPc, srTimer, srStdout>>
          ELSE /\ PrintResults(results)
               /\ UNCHANGED srNext
  /\ UNCHANGED <<srArgs, numResults, fetchContent, srTabs, srHelp, srExit>>
  /\ UNCHANGED <<runVars, ctVars, pickVars, tabVars, startVars>>

\* page.goto or page.evaluate of performSearch rejects: lines 184-196
SearchFail ==
  /\ srPc \in {"goto", "evaluate"}
  /\ srTimer' = FALSE
  /\ srStderr' = Append(srStderr, "search-failed")
  /\ srPc' = "failed"
  /\ UNCHANGED <<srArgs, numResults, fetchContent, srTabs, srResults, srNext,
                 srHelp, srStdout, srExit>>
  /\ UNCHANGED <<runVars, ctVars, pickVars, tabVars, startVars>>

\* lines 181-182: browser.disconnect() resolves, process.exit(0)
SearchExitSuccess ==
  /\ srPc = "disconnect"
  /\ srPc' = "exited"
  /\ srExit' = 0
  /\ UNCHANGED <<srArgs, numResults, fetchContent, srTimer, srTabs, srResults,
                 srNext, srHelp, srStdout, srStderr>>
  /\ UNCHANGED <<runVars, ctVars, pickVars, tabVars, startVars>>

\* lines 195-198: browser.disconnect() resolves, process.exit(1)
SearchExitFailure ==
  /\ srPc = "failed"
  /\ srPc' = "exited"
  /\ srExit' = 1
  /\ UNCHANGED <<srArgs, numResults, fetchContent, srTimer, srTabs, srResults,
                 srNext, srHelp, srStdout, srStderr>>
  /\ UNCHANGED <<runVars, ctVars, pickVars, tabVars, startVars>>

\* lines 159-162: the global timeout fires while main awaits the browser
SearchTimeout ==
  /\ srTimer
  /\ srPc \in {"connect", "pages", "newPage", "goto", "evaluate", "fetch"}
  /\ srStderr' = Append(srStderr, "global-timeout")
  /\ srPc' = "exited"
  /\ srExit' = 1
  /\ UNCHANGED <<srArgs, numResults, fetchContent, srTimer, srTabs, srResults,
                 srNext, srHelp, srStdout>>
  /\ UNCHANGED <<runVars, ctVars, pickVars, tabVars, startVars>>

\* the state of browser-search.js before SearchStart; pcv is its position
SearchState(pcv) ==
  /\ srPc = pcv
  /\ srArgs = <<>>
  /\ numResults = DEFAULT_RESULTS
  /\ fetchContent = FALSE
  /\ srTimer = FALSE
  /\ srResults = <<>>
  /\ srNext = 0
  /\ srHelp = FALSE
  /\ srStdout = <<>>
  /\ srStderr = <<>>
  /\ srExit = Null

\* browser-search.js is not running
SearchIdle == SearchState("idle") /\ srTabs = 0

\* ------------------------------------------------------------------------
\* Text of messages and file names
\* ------------------------------------------------------------------------

\* text.includes(word)
IncludesText(text, word) ==
  \E k \in 1..(Len(text) - Len(word) + 1) :
    SubSeq(text, k, k + Len(word) - 1) = word

\* the word the catch blocks look for in error.message
ConnectWord == <<"c", "o", "n", "n", "e", "c", "t">>

\* NoActiveTabMessage with a slip: another text
NoActiveTabMessageOther == <<"N", "o", " ", "p", "a", "g", "e", ".">>

\* 'No active tab found. Navigate to a page first.'
NoActiveTabMessage ==
  <<"N", "o", " ", "a", "c", "t", "i", "v", "e", " ", "t", "a", "b", " ",
    "f", "o", "u", "n", "d", ".", " ", "N", "a", "v", "i", "g", "a", "t",
    "e", " ", "t", "o", " ", "a", " ", "p", "a", "g", "e", " ", "f", "i",
    "r", "s", "t", ".">>

\* the messages puppeteer.connect rejects with when no Chrome listens on the
\* port: the text of the socket error, or that of a failed fetch
ConnectMessages ==
  { <<"c", "o", "n", "n", "e", "c", "t", " ", "E", "C", "O", "N", "N", "R",
      "E", "F", "U", "S", "E", "D", " ", "1", "2", "7", ".", "0", ".", "0",
      ".", "1", ":", "9", "2", "2", "2">>,
    <<"f", "e", "t", "c", "h", " ", "f", "a", "i", "l", "e", "d">> }

\* the messages of the errors the evaluated code can throw
ThrownMessages ==
  { <<"x", " ", "i", "s", " ", "n", "o", "t", " ", "d", "e", "f", "i", "n",
      "e", "d">>,
    <<"c", "a", "n", "n", "o", "t", " ", "c", "o", "n", "n", "e", "c", "t",
      " ", "t", "o", " ", "s", "e", "r", "v", "e", "r">> }

\* the message page.cookies() and page.screenshot() reject with when the
\* page was closed
TargetClosedMessage == <<"T", "a", "r", "g", "e", "t", " ", "c", "l", "o", "s", "e", "d">>

\* ------------------------------------------------------------------------
\* browser-screenshot.js: getTimestampFilename
\* ------------------------------------------------------------------------

DigitChars == <<"0", "1", "2", "3", "4", "5", "6", "7", "8", "9">>

\* String(n).padStart(width, '0')
RECURSIVE Pad(_, _)
Pad(n, width) ==
  IF width = 0 THEN <<>>
  ELSE Pad(n \div 10, width - 1) \o <<DigitChars[(n % 10) + 1]>>

\* now.toISOString(): YYYY-MM-DDTHH:mm:ss.sssZ
toISOString(now) ==
  Pad(now.year, 4) \o <<"-">> \o Pad(now.month, 2) \o <<"-">> \o Pad(now.day, 2)
    \o <<"T">> \o Pad(now.hour, 2) \o <<":">> \o Pad(now.minute, 2) \o <<":">>
    \o Pad(now.second, 2) \o <<".">> \o Pad(now.ms, 3) \o <<"Z">>

\* text.replace(/c/g, r) for one character c
ReplaceAll(text, c, r) == [i \in DOMAIN text |-> IF text[i] = c THEN r ELSE text[i]]

\* text.replace('c', r): the first c only
ReplaceFirst(text, c, r) ==
  LET at == {i \in DOMAIN text : text[i] = c} IN
  [i \in DOMAIN text |-> IF at # {} /\ i = Min(at) THEN r ELSE text[i]]

\* text.split('c')[0]
SplitFirst(text, c) ==
  LET at == {i \in DOMAIN text : text[i] = c} IN
  IF at = {} THEN text ELSE SubSeq(text, 1, Min(at) - 1)

ScreenshotPrefix == <<"s", "c", "r", "e", "e", "n", "s", "h", "o", "t", "-">>

PngSuffix == <<".", "p", "n", "g">>

\* lines 38-42
Timestamp(now) ==
  SplitFirst(
    ReplaceFirst(
      ReplaceAll(ReplaceAll(toISOString(now), ":", "-"), ".", "-"),
      "T", "-"),
    "Z")

getTimestampFilename(now) == ScreenshotPrefix \o Timestamp(now) \o PngSuffix

\* join(tmpdir(), filename)
TmpPath(filename) == <<"/", "t", "m", "p", "/">> \o filename

\* the times new Date() can give
Dates ==
  [year : {2026}, month : {2, 12}, day : {5, 31}, hour : {0, 14},
   minute : {30}, second : {0, 45}, ms : {0, 45, 999}]

\* ------------------------------------------------------------------------
\* browser-eval.js, browser-pick.js, browser-cookies.js, browser-screenshot.js:
\* main, with the call on the page as one step
\* ------------------------------------------------------------------------

TabScripts == {"eval", "pick", "cookies", "screenshot"}

FullpageArg == <<"-", "-", "f", "u", "l", "l", "p", "a", "g", "e">>

CodeArg == <<"1">>

BlankArg == <<" ">>

\* process.argv.slice(2) of the script
TabArgLists(script) ==
  CASE script = "eval"       -> {<<>>, <<HelpArg>>, <<BlankArg>>, <<CodeArg>>}
    [] script = "pick"       -> {<<>>, <<HelpArg>>}
    [] script = "cookies"    -> {<<>>, <<HelpArg>>}
    [] script = "screenshot" -> {<<>>, <<HelpArg>>, <<FullpageArg>>}

\* args.join(' ')
RECURSIVE JoinArgs(_)
JoinArgs(args) ==
  IF args = <<>> THEN <<>>
  ELSE IF Len(args) = 1 THEN args[1]
  ELSE args[1] \o <<" ">> \o JoinArgs(Tail(args))

\* the script's own failure message
OwnDiagnostic(script) ==
  CASE script = "eval"       -> "Evaluation failed"
    [] script = "pick"       -> "Element picker failed"
    [] script = "cookies"    -> "Failed to retrieve cookies"
    [] script = "screenshot" -> "Screenshot failed"

\* the catch block of main: what console.error prints for error.message
Diagnostic(script, message) ==
  IF IncludesText(message, ConnectWord)
  THEN [diagnostic |-> "Could not connect to Chrome", message |-> <<>>]
  ELSE [diagnostic |-> OwnDiagnostic(script), message |-> message]

\* a line of stdout
TabLine(kind, text) == [kind |-> kind, text |-> text]

\* the arguments, up to the await of puppeteer.connect
TabStart ==
  /\ tsPc = "start"
  /\ \E args \in TabArgLists(tsScript) :
       /\ tsArgs' = args
       /\ IF Includes(args, HelpArg) \/ (tsScript = "eval" /\ Len(args) = 0)
          THEN /\ tsStdout' = Append(tsStdout, TabLine("usage", <<>>))
               /\ tsPc' = "exited"
               /\ tsExit' = 0
               /\ UNCHANGED tsStderr
          ELSE IF tsScript = "eval" /\ Trim(JoinArgs(args)) = <<>>
          THEN /\ tsStderr' = Append(tsStderr,
                    [diagnostic |-> "JavaScript code is required", message |-> <<>>])
               /\ tsStdout' = Append(tsStdout, TabLine("usage", <<>>))
               /\ tsPc' = "exited"
               /\ tsExit' = 0
          ELSE /\ tsPc' = "connect"
               /\ UNCHANGED <<tsStdout, tsStderr, tsExit>>
  /\ UNCHANGED <<tsScript, tsTabs, tsFile>>
  /\ UNCHANGED <<runVars, ctVars, pickVars, searchVars, startVars>>

\* puppeteer.connect resolves
TabConnectOk ==
  /\ tsPc = "connect"
  /\ tsPc' = "pages"
  /\ UNCHANGED <<tsScript, tsArgs, tsTabs, tsFile, tsStdout, tsStderr, tsExit>>
  /\ UNCHANGED <<runVars, ctVars, pickVars, searchVars, startVars>>

\* puppeteer.connect rejects: the catch block with browser undefined
TabConnectFail ==
  /\ tsPc = "connect"
  /\ \E message \in ConnectMessages :
       tsStderr' = Append(tsStderr, Diagnostic(tsScript, message))
  /\ tsPc' = "exited"
  /\ tsExit' = 1
  /\ UNCHANGED <<tsScript, tsArgs, tsTabs, tsFile, tsStdout>>
  /\ UNCHANGED <<runVars, ctVars, pickVars, searchVars, startVars>>

\* browser.pages() resolves: without pages[0] the throw and the catch block
\* up to its await of browser.disconnect; with it the script's call on the
\* page, for browser-screenshot.js after getTimestampFilename()
TabPages ==
  /\ tsPc = "pages"
  /\ IF tsTabs = 0
     THEN /\ tsStderr' = Append(tsStderr, Diagnostic(tsScript, NoActiveTabMessage))
          /\ tsPc' = "failed"
          /\ UNCHANGED tsFile
     ELSE /\ tsPc' = "work"
          /\ IF tsScript = "screenshot"
             THEN \E now \in Dates : tsFile' = TmpPath(getTimestampFilename(now))
             ELSE UNCHANGED tsFile
          /\ UNCHANGED tsStderr
  /\ UNCHANGED <<tsScript, tsArgs, tsTabs, tsStdout, tsExit>>
  /\ UNCHANGED <<runVars, ctVars, pickVars, searchVars, startVars>>

\* page.evaluate, page.cookies or page.screenshot resolves; the result is
\* printed, up to the await of browser.disconnect
TabWorkOk ==
  /\ tsPc = "work"
  /\ tsStdout' = Append(tsStdout,
       CASE tsScript = "eval"       -> TabLine("result", <<>>)
         [] tsScript = "pick"       -> TabLine("selection", <<>>)
         [] tsScript = "cookies"    -> TabLine("cookies", <<>>)
         [] tsScript = "screenshot" -> TabLine("path", tsFile))
  /\ tsPc' = "disconnect"
  /\ UNCHANGED <<tsScript, tsArgs, tsTabs, tsFile, tsStderr, tsExit>>
  /\ UNCHANGED <<runVars, ctVars, pickVars, searchVars, startVars>>

\* the messages the script's call on the page can reject with
WorkMessages(script) ==
  IF script = "eval" THEN ThrownMessages ELSE {TargetClosedMessage}

\* page.evaluate, page.cookies or page.screenshot rejects: the catch block
\* up to its await of browser.disconnect
TabWorkFail ==
  /\ tsPc = "work"
  /\ \E message \in WorkMessages(tsScript) :
       tsStderr' = Append(tsStderr, Diagnostic(tsScript, message))
  /\ tsPc' = "failed"
  /\ UNCHANGED <<tsScript, tsArgs, tsTabs, tsFile, tsStdout, tsExit>>
  /\ UNCHANGED <<runVars, ctVars, pickVars, searchVars, startVars>>

\* browser.disconnect() resolves, process.exit(0)
TabExitSuccess ==
  /\ tsPc = "disconnect"
  /\ tsPc' = "exited"
  /\ tsExit' = 0
  /\ UNCHANGED <<tsScript, tsArgs, tsTabs, tsFile, tsStdout, tsStderr>>
  /\ UNCHANGED <<runVars, ctVars, pickVars, searchVars, startVars>>

\* browser.disconnect() resolves in the catch block, process.exit(1)
TabExitFailure ==
  /\ tsPc = "failed"
  /\ tsPc' = "exited"
  /\ tsExit' = 1
  /\ UNCHANGED <<tsScript, tsArgs, tsTabs, tsFile, tsStdout, tsStderr>>
  /\ UNCHANGED <<runVars, ctVars, pickVars, searchVars, startVars>>

\* the state of one of the four scripts before TabStart
TabState(script, pcv, n) ==
  /\ tsScript = script
  /\ tsPc = pcv
  /\ tsArgs = <<>>
  /\ tsTabs = n
  /\ tsFile = <<>>
  /\ tsStdout = <<>>
  /\ tsStderr = <<>>
  /\ tsExit = Null

\* none of the four scripts is running
TabIdle == TabState("none", "idle", 0)

\* ------------------------------------------------------------------------
\* browser-start.js
\* ------------------------------------------------------------------------

MAX_RETRIES == 30

ProfileArg == <<"-", "-", "p", "r", "o", "f", "i", "l", "e">>

StartArgLists == {<<>>, <<HelpArg>>, <<ProfileArg>>}

\* killExistingChrome: pkill signals the instance started with the port on
\* its command line, and the script sleeps half a second; the instance has
\* exited by then, or is still shutting down
AfterKill(old) == IF old = "running" THEN {"terminating", "gone"} ELSE {old}

\* the spawned Chrome starts up; next to an instance that still runs on the
\* same port and profile it may give way instead
Spawned(old) == IF old = "terminating" THEN {"starting", "yielded"} ELSE {"starting"}

\* what syncProfile prints
SyncOutcomes == {"no-profile", "synced", "sync-failed"}

\* the loop condition with a slip: one probe too many
MoreRetriesInclusive(i, maxRetries) == i <= maxRetries

\* the loop condition of waitForChrome
MoreRetries(i, maxRetries) == i < maxRetries

\* the instances that can answer a fetch of /json/version
Answering ==
  (IF oldChrome = "terminating" THEN {"old"} ELSE {})
    \cup (IF newChrome = "listening" THEN {"new"} ELSE {})

\* lines 137-145: the return value of waitForChrome is printed
Report(isReady) ==
  /\ stReady' = <<isReady>>
  /\ stPc' = "exited"
  /\ IF isReady
     THEN /\ stStdout' = Append(stStdout, "started")
          /\ stExit' = 0
          /\ UNCHANGED stStderr
     ELSE /\ stStderr' = Append(stStderr, "failed-to-connect")
          /\ stExit' = 1
          /\ UNCHANGED stStdout

\* main up to the first await: the arguments, getChromeExecutable,
\* killExistingChrome, syncProfile, spawn, and the first test of the loop
StartMain ==
  /\ stPc = "start"
  /\ \E args \in StartArgLists, installed \in BOOLEAN, sync \in SyncOutcomes :
       IF Includes(args, HelpArg)
       THEN /\ stStdout' = Append(stStdout, "usage")
            /\ stPc' = "exited"
            /\ stExit' = 0
            /\ UNCHANGED <<oldChrome, newChrome, oldAtSpawn, stI, stProbes,
                           stAnswered, stReady, stStderr>>
       ELSE IF ~installed
       THEN /\ stStderr' = Append(stStderr, "error")
            /\ stPc' = "exited"
            /\ stExit' = 1
            /\ UNCHANGED <<oldChrome, newChrome, oldAtSpawn, stI, stProbes,
                           stAnswered, stReady, stStdout>>
       ELSE /\ \E old \in AfterKill(oldChrome) :
                 /\ oldChrome' = old
                 /\ oldAtSpawn' = <<old>>
                 /\ newChrome' \in Spawned(old)
            /\ stI' = 0
            /\ LET out == IF Includes(args, ProfileArg) /\ sync # "no-profile"
                          THEN Append(stStdout, "syncing") ELSE stStdout
                   err == IF Includes(args, ProfileArg) /\ sync # "synced"
                          THEN Append(stStderr, sync) ELSE stStderr
               IN IF MoreRetries(0, MAX_RETRIES)
                  THEN /\ stPc' = "probe"
                       /\ stStdout' = out
                       /\ stStderr' = err
                       /\ UNCHANGED <<stReady, stExit>>
                  ELSE /\ stReady' = <<FALSE>>
                       /\ stPc' = "exited"
                       /\ stStdout' = out
                       /\ stStderr' = Append(err, "failed-to-connect")
                       /\ stExit' = 1
            /\ UNCHANGED <<stProbes, stAnswered>>
  /\ UNCHANGED <<runVars, ctVars, pickVars, searchVars, tabVars>>

\* the fetch of line 83 settles with response.ok: waitForChrome returns true
ProbeOk ==
  /\ stPc = "probe"
  /\ stProbes' = stProbes + 1
  /\ \E by \in Answering : stAnswered' = <<by>>
  /\ Report(TRUE)
  /\ UNCHANGED <<oldChrome, newChrome, oldAtSpawn, stI>>
  /\ UNCHANGED <<runVars, ctVars, pickVars, searchVars, tabVars>>

\* the fetch of line 83 rejects, or settles without response.ok; the script
\* goes on to the timer of line 90
ProbeFail ==
  /\ stPc = "probe"
  /\ stProbes' = stProbes + 1
  /\ stPc' = "wait"
  /\ UNCHANGED <<oldChrome, newChrome, oldAtSpawn, stI, stAnswered, stReady,
                 stStdout, stStderr, stExit>>
  /\ UNCHANGED <<runVars, ctVars, pickVars, searchVars, tabVars>>

\* the timer of line 90 fires: i++, and the test of the loop
RetryWait ==
  /\ stPc = "wait"
  /\ stI' = stI + 1
  /\ IF MoreRetries(stI + 1, MAX_RETRIES)
     THEN /\ stPc' = "probe"
          /\ UNCHANGED <<stReady, stStdout, stStderr, stExit>>
     ELSE Report(FALSE)
  /\ UNCHANGED <<oldChrome, newChrome, oldAtSpawn, stProbes, stAnswered>>
  /\ UNCHANGED <<runVars, ctVars, pickVars, searchVars, tabVars>>

\* the signalled instance exits
OldChromeExits ==
  /\ stPc \in {"probe", "wait"}
  /\ oldChrome = "terminating"
  /\ oldChrome' = "gone"
  /\ UNCHANGED <<stPc, newChrome, oldAtSpawn, stI, stProbes, stAnswered,
                 stReady, stStdout, stStderr, stExit>>
  /\ UNCHANGED <<runVars, ctVars, pickVars, searchVars, tabVars>>

\* the spawned Chrome opens the port, which no other instance holds
NewChromeListens ==
  /\ stPc \in {"probe", "wait"}
  /\ newChrome = "starting"
  /\ oldChrome # "terminating"
  /\ newChrome' = "listening"
  /\ UNCHANGED <<stPc, oldChrome, oldAtSpawn, stI, stProbes, stAnswered,
                 stReady, stStdout, stStderr, stExit>>
  /\ UNCHANGED <<runVars, ctVars, pickVars, searchVars, tabVars>>

\* the state of browser-start.js before StartMain
StartState(pcv, old) ==
  /\ stPc = pcv
  /\ oldChrome = old
  /\ newChrome = "none"
  /\ oldAtSpawn = <<>>
  /\ stI = 0
  /\ stProbes = 0
  /\ stAnswered = <<>>
  /\ stReady = <<>>
  /\ stStdout = <<>>
  /\ stStderr = <<>>
  /\ stExit = Null

\* browser-start.js is not running
StartIdle == StartState("idle", "none")

\* cleanText is not applied on its own while the script runs
CleanIdle ==
  /\ ctStage = "idle"
  /\ ctIn = <<>>
  /\ ctOnce = <<>>
  /\ ctTwice = <<>>

\* n invocations of browser-content.js about to start
Invocations(n) ==
  /\ pc = [p \in 1..n |-> "start"]
  /\ url = [p \in 1..n |-> ""]
  /\ timer = [p \in 1..n |-> FALSE]
  /\ page = [p \in 1..n |-> Null]
  /\ finalUrl = [p \in 1..n |-> ""]
  /\ html = [p \in 1..n |-> <<>>]
  /\ article = [p \in 1..n |-> <<>>]
  /\ fallback = [p \in 1..n |-> FALSE]
  /\ title = [p \in 1..n |-> ""]
  /\ content = [p \in 1..n |-> <<>>]
  /\ error = [p \in 1..n |-> <<>>]
  /\ helpShown = [p \in 1..n |-> FALSE]
  /\ printed = [p \in 1..n |-> <<>>]
  /\ stderr = [p \in 1..n |-> <<>>]
  /\ exitCode = [p \in 1..n |-> Null]

\* one invocation, for any document the bounds allow
Init ==
  /\ urls = {AnyUrl}
  /\ tabs \in {<<>>, <<BlankTab>>}
  /\ Invocations(1)
  /\ CleanIdle
  /\ PickIdle
  /\ SearchIdle
  /\ TabIdle
  /\ StartIdle

Next ==
  \/ \E p \in Procs : Start(p)
  \/ \E p \in Procs : ConnectOk(p)
  \/ \E p \in Procs : ConnectFail(p)
  \/ \E p \in Procs : Pages(p)
  \/ \E p \in Procs : NewPage(p)
  \/ \E p \in Procs : GotoOk(p)
  \/ \E p \in Procs : PageFail(p)
  \/ \E p \in Procs : Extract(p)
  \/ \E p \in Procs : ExitSuccess(p)
  \/ \E p \in Procs : ExitFailure(p)
  \/ \E p \in Procs : GlobalTimeout(p)

Spec == Init /\ [][Next]_vars

\* two invocations at the same time on one Chrome, for the URLs A and B
InitConc ==
  /\ urls = {UrlA, UrlB}
  /\ tabs \in {<<>>, <<BlankTab>>}
  /\ Invocations(2)
  /\ CleanIdle
  /\ PickIdle
  /\ SearchIdle
  /\ TabIdle
  /\ StartIdle

SpecConc == InitConc /\ [][Next]_vars

\* one invocation, for a document with Markdown structure
InitMd ==
  /\ urls = {UrlMd}
  /\ tabs \in {<<>>, <<BlankTab>>}
  /\ Invocations(1)
  /\ CleanIdle
  /\ PickIdle
  /\ SearchIdle
  /\ TabIdle
  /\ StartIdle

SpecMd == InitMd /\ [][Next]_vars

\* one run of browser-pick.js, with the events of the user on the page
InitPick ==
  /\ pkPc = "start"
  /\ pkTabs \in {0, 1}
  /\ pkStdout = <<>>
  /\ pkStderr = <<>>
  /\ pkExit = Null
  /\ listeners = {}
  /\ bannerIn = FALSE
  /\ styleIn = FALSE
  /\ selectedElements = <<>>
  /\ currentHighlight = <<>>
  /\ highlightClass = {}
  /\ selectedClass = {}
  /\ resolved = <<>>
  /\ resolveCalls = 0
  /\ events = <<>>
  /\ urls = {}
  /\ tabs = <<>>
  /\ Invocations(0)
  /\ CleanIdle
  /\ SearchIdle
  /\ TabIdle
  /\ StartIdle

NextPick ==
  \/ PickStart
  \/ PickConnectOk
  \/ PickConnectFail
  \/ PickPages
  \/ PickerScript
  \/ PickEvaluateFail
  \/ PickEvaluated
  \/ PickExitSuccess
  \/ PickExitFailure
  \/ \E target \in Targets : MouseOver(target)
  \/ \E target \in Targets : MouseOut(target)
  \/ \E target \in Targets, modifier \in Modifiers : Click(target, modifier)
  \/ \E key \in Keys : KeyDown(key)

SpecPick == InitPick /\ [][NextPick]_vars

\* one run of browser-search.js
InitSearch ==
  /\ SearchState("start")
  /\ srTabs \in {0, 1}
  /\ urls = {}
  /\ tabs = <<>>
  /\ Invocations(0)
  /\ CleanIdle
  /\ PickIdle
  /\ TabIdle
  /\ StartIdle

NextSearch ==
  \/ SearchStart
  \/ SearchConnectOk
  \/ SearchConnectFail
  \/ SearchPages
  \/ SearchNewPage
  \/ SearchGotoOk
  \/ SearchEvaluated
  \/ SearchFetch
  \/ SearchFail
  \/ SearchExitSuccess
  \/ SearchExitFailure
  \/ SearchTimeout

SpecSearch == InitSearch /\ [][NextSearch]_vars

\* one run of one of the active-tab scripts
InitTab ==
  /\ \E script \in TabScripts, n \in {0, 1, 2} : TabState(script, "start", n)
  /\ urls = {}
  /\ tabs = <<>>
  /\ Invocations(0)
  /\ CleanIdle
  /\ PickIdle
  /\ SearchIdle
  /\ StartIdle

NextTab ==
  \/ TabStart
  \/ TabConnectOk
  \/ TabConnectFail
  \/ TabPages
  \/ TabWorkOk
  \/ TabWorkFail
  \/ TabExitSuccess
  \/ TabExitFailure

SpecTab == InitTab /\ [][NextTab]_vars

\* one run of browser-start.js, with or without a Chrome on the port
InitStart ==
  /\ \E old \in {"none", "running"} : StartState("start", old)
  /\ urls = {}
  /\ tabs = <<>>
  /\ Invocations(0)
  /\ CleanIdle
  /\ PickIdle
  /\ SearchIdle
  /\ TabIdle

NextStart ==
  \/ StartMain
  \/ ProbeOk
  \/ ProbeFail
  \/ RetryWait
  \/ OldChromeExits
  \/ NewChromeListens

SpecStart == InitStart /\ [][NextStart]_vars

\* ------------------------------------------------------------------------
\* Claims about extractContent (Spec)
\* ------------------------------------------------------------------------

\* extractContent of invocation p got as far as the quality gate
Gated(p) == html[p] # <<>>

\* extractContent of invocation p returned a result (main prints it at once)
Returned(p) == printed[p] # <<>>

\* C1: a returned result has content of at least MIN_CONTENT_LENGTH
\* characters, on the primary and on the fallback path
C1_ResultLongEnough ==
  \A p \in Procs : Returned(p) => Len(printed[p][1].content) >= 100

\* C1 witness: a result of exactly 100 characters, from the fallback path
C1_Witness ==
  \E p \in Procs :
    /\ Returned(p)
    /\ fallback[p]
    /\ Len(printed[p][1].content) = 100

\* C2: content shorter than 100 characters makes extractContent fail with
\* the insufficient-content error, which carries the length of the cleaned
\* content and the threshold 100
C2_ShortContentFails ==
  \A p \in Procs :
    (Gated(p) /\ Len(content[p]) < 100) =>
      /\ ~Returned(p)
      /\ error[p] = <<[kind |-> "insufficient-content",
                       length |-> Len(content[p]), minimum |-> 100]>>

\* C2 witness: <body>Hi</body> fails on the fallback path with length 2
C2_Witness ==
  \E p \in Procs :
    /\ Gated(p)
    /\ Len(html[p][1].nodes) = 1
    /\ html[p][1].nodes[1].tag = "p"
    /\ article[p] = <<>>
    /\ error[p] # <<>>
    /\ error[p][1].kind = "insufficient-content"
    /\ error[p][1].length = 2

\* the chrome elements the spec lists: script, style, nav, header, footer,
\* aside, .navigation, .menu, .sidebar
ChromeElement(el) ==
  \/ el.tag \in {"script", "style", "nav", "header", "footer", "aside"}
  \/ el.class \in {"navigation", "menu", "sidebar"}

\* the elements of doc that are neither chrome nor inside chrome
Kept(doc) ==
  {i \in 1..Len(doc.nodes) :
     \A a \in 1..Len(doc.nodes) :
       InSubtree(doc.nodes, i, a) => ~ChromeElement(doc.nodes[a])}

\* the text of r that is left without the chrome elements, cleaned
KeptText(doc, r) == cleanText(textContent(doc.nodes, Kept(doc), r))

\* the letters of the text of the chrome elements of doc
ChromeLetters(doc) ==
  {doc.nodes[i].text.letter : i \in (1..Len(doc.nodes)) \ Kept(doc)}

NoChromeText(text, doc) ==
  \A k \in 1..Len(text) : text[k] \notin ChromeLetters(doc)

\* the first kept element of doc that matches sel, Null when there is none
FirstKept(doc, sel) ==
  LET hits == {i \in Kept(doc) : Matches(doc.nodes[i], sel)} IN
  IF hits = {} THEN Null ELSE Min(hits)

MainOrArticle(el) == el.tag \in {"main", "article"}

\* C3 as claimed: a document with a kept <main> or <article> of at least 100
\* characters of text, primary extraction returning null: the fallback
\* succeeds with non-empty text that holds no chrome text
C3_AnyMainOrArticleSucceeds ==
  \A p \in Procs :
    (/\ Gated(p)
     /\ article[p] = <<>>
     /\ \E i \in Kept(html[p][1]) :
          /\ MainOrArticle(html[p][1].nodes[i])
          /\ Len(KeptText(html[p][1], i)) >= 100)
    => /\ Returned(p)
       /\ fallback[p]
       /\ Len(content[p]) > 0
       /\ NoChromeText(content[p], html[p][1])

\* the <main> or <article> the priority order puts first: the first kept
\* <main>, without one the first kept <article>
FirstMainOrArticle(doc) ==
  IF FirstKept(doc, "main") # Null THEN FirstKept(doc, "main")
  ELSE FirstKept(doc, "article")

\* C3 as amended: when the first kept <main> (without one, the first kept
\* <article>) has at least 100 characters of cleaned text and primary
\* extraction returns null, the fallback succeeds with non-empty text that
\* holds no chrome text
C3_FirstMainOrArticleSucceeds ==
  \A p \in Procs :
    (/\ Gated(p)
     /\ article[p] = <<>>
     /\ FirstMainOrArticle(html[p][1]) # Null
     /\ Len(KeptText(html[p][1], FirstMainOrArticle(html[p][1]))) >= 100)
    => /\ Returned(p)
       /\ fallback[p]
       /\ Len(content[p]) > 0
       /\ NoChromeText(content[p], html[p][1])

\* C3 witness: the fallback succeeded on a <main> that holds a chrome element
C3_Witness ==
  \E p \in Procs :
    /\ Returned(p)
    /\ article[p] = <<>>
    /\ Len(html[p][1].nodes) = 2
    /\ html[p][1].nodes[1].tag = "main"
    /\ html[p][1].nodes[2].parent = 1
    /\ ChromeElement(html[p][1].nodes[2])

\* C4: fallbackExtraction is called exactly when Readability returned null,
\* also when the primary content is too short; after null the content is
\* the cleaned text of the fallback
C4_FallbackIffNull ==
  \A p \in Procs :
    Gated(p) =>
      /\ fallback[p] <=> article[p] = <<>>
      /\ article[p] = <<>> =>
           content[p] = fallbackExtraction(html[p][1], finalUrl[p])

\* C4 witness: a non-null article with too little content fails without the
\* fallback, on a document the fallback would have succeeded on
C4_Witness ==
  \E p \in Procs :
    /\ Gated(p)
    /\ article[p] # <<>>
    /\ Len(content[p]) < 100
    /\ ~fallback[p]
    /\ error[p] # <<>>
    /\ Len(fallbackExtraction(html[p][1], finalUrl[p])) >= 100

Container(el) ==
  \/ el.tag \in {"main", "article"}
  \/ el.role = "main"
  \/ el.class = "content"
  \/ el.id = "content"

\* C5 as claimed: a kept <main>, <article>, [role=main], .content or #content
\* with at least 100 characters of cleaned text makes extractContent return
\* a result, whatever Readability returned
C5_AnyContainerSucceeds ==
  \A p \in Procs :
    (/\ Gated(p)
     /\ \E i \in Kept(html[p][1]) :
          /\ Container(html[p][1].nodes[i])
          /\ Len(KeptText(html[p][1], i)) >= 100)
    => Returned(p)

\* the selectors of the containers, in the order of their priority
ContainerSelectors ==
  <<"main", "article", "[role=main]", ".content", "#content">>

\* the container the priority order puts first
FirstContainer(doc) ==
  LET found == {s \in 1..Len(ContainerSelectors) :
                  FirstKept(doc, ContainerSelectors[s]) # Null}
  IN  IF found = {} THEN Null
      ELSE FirstKept(doc, ContainerSelectors[Min(found)])

\* C5 as amended: when Readability returned null and the container the
\* priority order puts first has at least 100 characters of cleaned text,
\* extractContent returns a result
C5_FirstContainerSucceeds ==
  \A p \in Procs :
    (/\ Gated(p)
     /\ article[p] = <<>>
     /\ FirstContainer(html[p][1]) # Null
     /\ Len(KeptText(html[p][1], FirstContainer(html[p][1]))) >= 100)
    => /\ Returned(p)
       /\ error[p] = <<>>

\* C5 witness: a result from a .content container that follows a paragraph
C5_Witness ==
  \E p \in Procs :
    /\ Returned(p)
    /\ article[p] = <<>>
    /\ Len(html[p][1].nodes) = 2
    /\ html[p][1].nodes[1].tag = "p"
    /\ html[p][1].nodes[2].class = "content"
    /\ Len(content[p]) = 100

\* the root the priority order gives: the first container, <body> without one
PriorityRoot(doc) ==
  IF FirstContainer(doc) # Null THEN FirstContainer(doc) ELSE Body

\* C12: the content of the fallback path is the cleaned text of the first
\* that exists, among the elements left after chrome removal, of <main>,
\* <article>, [role=main], .content, #content, and of <body> only when none
\* of them exists
C12_RootByPriority ==
  \A p \in Procs :
    (Gated(p) /\ article[p] = <<>>) =>
      content[p] = KeptText(html[p][1], PriorityRoot(html[p][1]))

\* C12 witness: the fallback returned the text of a <main> that follows an
\* <article> in the document
C12_Witness ==
  \E p \in Procs :
    /\ Returned(p)
    /\ article[p] = <<>>
    /\ Len(html[p][1].nodes) = 2
    /\ html[p][1].nodes[1].tag = "article"
    /\ html[p][1].nodes[2].tag = "main"
    /\ html[p][1].nodes[2].parent = Body
    /\ content[p] = KeptText(html[p][1], 2)
    /\ content[p] # KeptText(html[p][1], 1)

\* C13: a result of the fallback path has the text of the document's <title>
\* as its title when that is non-empty, and "Untitled" otherwise
C13_FallbackTitle ==
  \A p \in Procs :
    (Returned(p) /\ article[p] = <<>>) =>
      /\ html[p][1].title # "" => printed[p][1].title = html[p][1].title
      /\ html[p][1].title = "" => printed[p][1].title = "Untitled"

\* C13 witness: a fallback result for a document without a <title>
C13_Witness ==
  \E p \in Procs :
    /\ Returned(p)
    /\ fallback[p]
    /\ html[p][1].title = ""
    /\ printed[p][1].title = "Untitled"

\* C6: a returned result has a non-empty title, "Untitled" when neither the
\* article nor the document's <title> gives one
C6_TitleNonEmpty ==
  \A p \in Procs :
    Returned(p) =>
      /\ printed[p][1].title # ""
      /\ ((article[p] = <<>> \/ article[p][1].title = "")
            /\ DocumentTitle(html[p][1]) = "")
           => printed[p][1].title = "Untitled"

\* C11: the insufficient-content failure differs from every other failure of
\* the extraction call in the class of the thrown error, and the catch block
\* of main handles it differently
C11_InsufficientDistinguished ==
  \A p \in Procs :
    (error[p] # <<>> /\ error[p][1].kind = "insufficient-content") =>
      \A other \in PageFailures :
        /\ ErrorClass(error[p][1]) # ErrorClass(other)
        /\ Handling(error[p][1]) # Handling(other)

\* main of invocation p stands at an await on the browser
Awaiting(p) == pc[p] \notin {"start", "exited"}

\* C15: the global timeout is armed whenever main waits on the browser, from
\* the connection attempt on, and a run in which it fired has printed the
\* global-timeout error and exited with code 1
C15_BoundedByTimeout ==
  \A p \in Procs :
    /\ Awaiting(p) => timer[p]
    /\ (\E k \in 1..Len(stderr[p]) : stderr[p][k] = "global-timeout") =>
         (pc[p] = "exited" /\ exitCode[p] = 1)

\* C10: exit code 1 after every failure the script reported, 0 after a
\* result was printed, and 0 otherwise only for the usage text asked for
C10_ExitCodes ==
  \A p \in Procs :
    pc[p] = "exited" =>
      /\ stderr[p] # <<>> => exitCode[p] = 1
      /\ Returned(p) => exitCode[p] = 0
      /\ exitCode[p] = 0 => (Returned(p) \/ (helpShown[p] /\ stderr[p] = <<>>))

\* ------------------------------------------------------------------------
\* Claims about the Markdown of the primary path (SpecMd)
\* ------------------------------------------------------------------------

\* w stands in text at k
StartsAt(text, k, w) ==
  /\ k + Len(w) - 1 <= Len(text)
  /\ SubSeq(text, k, k + Len(w) - 1) = w

\* a line of text begins at k
LineStart(text, k) == k = 1 \/ text[k - 1] = "\n"

\* a line of text ends with the character at k
LineEnd(text, k) == k = Len(text) \/ text[k + 1] = "\n"

\* text has a line that begins with "## " and the heading's text
HeadingLine(text, el) ==
  \E k \in 1..Len(text) :
    /\ LineStart(text, k)
    /\ StartsAt(text, k, <<"#", "#", " ">> \o ElementText(el))

\* text has the code between two lines that hold the fence marker alone
FencedBlock(text, el) ==
  LET block == <<"U+0060", "U+0060", "U+0060", "\n">> \o ElementText(el)
                 \o <<"\n", "U+0060", "U+0060", "U+0060">>
  IN  \E k \in 1..Len(text) :
        /\ LineStart(text, k)
        /\ StartsAt(text, k, block)
        /\ LineEnd(text, k + Len(block) - 1)

\* C14: in a result of the primary path every <h2> of the extracted root is
\* a line that begins with "##", and every <pre><code> of it is a fenced
\* block whose fence markers stand on lines of their own
C14_MarkdownLinesSurvive ==
  \A p \in Procs :
    (Returned(p) /\ article[p] # <<>>) =>
      \A i \in 1..Len(html[p][1].nodes) :
        InSubtree(html[p][1].nodes, i, article[p][1].content) =>
          /\ html[p][1].nodes[i].tag = "h2" =>
                HeadingLine(printed[p][1].content, html[p][1].nodes[i])
          /\ html[p][1].nodes[i].tag = "pre" =>
                FencedBlock(printed[p][1].content, html[p][1].nodes[i])

\* ------------------------------------------------------------------------
\* Claims about concurrent invocations (SpecConc)
\* ------------------------------------------------------------------------

\* C9: what an invocation prints comes from a page of its own URL
C9_OwnPage ==
  \A p \in Procs :
    Returned(p) =>
      /\ printed[p][1].finalUrl = url[p]
      /\ html[p][1] \in PagesAt(url[p])

\* ------------------------------------------------------------------------
\* Claims about the element picker (SpecPick)
\* ------------------------------------------------------------------------

\* the picker is running: its script was evaluated and its promise is pending
PickerRunning == pkPc = "picking" /\ resolved = <<>>

EndingEvent(e) ==
  \/ e.type = "key" /\ e.target \in {"Enter", "Escape"}
  \/ e.type = "click" /\ ~e.multi /\ e.target \in PageElements

\* the index of the first ending event of log, 0 when it has none
FirstEnding(log) ==
  LET ends == {k \in 1..Len(log) : EndingEvent(log[k])} IN
  IF ends = {} THEN 0 ELSE Min(ends)

\* the events of log before its first ending event
WhileRunning(log) ==
  IF FirstEnding(log) = 0 THEN log ELSE SubSeq(log, 1, FirstEnding(log) - 1)

\* the positions of the Cmd/Ctrl+clicks on t in log
MultiClicksOn(log, t) ==
  {k \in 1..Len(log) : log[k].type = "click" /\ log[k].multi /\ log[k].target = t}

\* the elements Cmd/Ctrl+clicked an odd number of times in log
OddSelected(log) ==
  {t \in PageElements : Cardinality(MultiClicksOn(log, t)) % 2 = 1}

\* the elements of S in the order of their latest Cmd/Ctrl+click in log
RECURSIVE ByLatest(_, _)
ByLatest(S, log) ==
  IF S = {} THEN <<>>
  ELSE LET t == CHOOSE t \in S :
                  \A u \in S : Max(MultiClicksOn(log, t)) <= Max(MultiClicksOn(log, u))
       IN  <<t>> \o ByLatest(S \ {t}, log)

\* the selection the events before the first ending event leave
ExpectedSelection(log) ==
  ByLatest(OddSelected(WhileRunning(log)), WhileRunning(log))

C18_EscapeCancels ==
  (FirstEnding(events) > 0 /\ events[FirstEnding(events)] = KeyEvent("Escape")) =>
    /\ resolved = <<[kind |-> "null", infos |-> <<>>]>>
    /\ pkPc \in {"disconnect", "exited"} =>
         /\ Len(pkStdout) = 1
         /\ pkStdout[1].text = "Selection cancelled"
         /\ pkStderr = <<>>
    /\ pkPc = "exited" => pkExit = 0

\* C18 witness: Escape with A and B selected; the script printed the
\* cancellation and exited with code 0
C18_Witness ==
  /\ events = <<ClickEvent("A", TRUE), ClickEvent("B", TRUE), KeyEvent("Escape")>>
  /\ selectedElements = <<"A", "B">>
  /\ resolved = <<[kind |-> "null", infos |-> <<>>]>>
  /\ pkPc = "exited"
  /\ pkExit = 0
  /\ Len(pkStdout) = 1

\* C19: after a plain click on A, Cmd/Ctrl+click on B, Cmd/Ctrl+click on C
\* and Enter, the output lists A, B and C as entries [0], [1] and [2]
C19_DocumentedWorkflow ==
  (/\ events = <<ClickEvent("A", FALSE), ClickEvent("B", TRUE),
                 ClickEvent("C", TRUE), KeyEvent("Enter")>>
   /\ pkPc = "exited")
  => pkStdout = <<[text |-> "element", index |-> 0, info |-> [selector |-> "A"]],
                  [text |-> "element", index |-> 1, info |-> [selector |-> "B"]],
                  [text |-> "element", index |-> 2, info |-> [selector |-> "C"]]>>

\* C23: the promise of the picker is resolved at most once; once it is
\* resolved no listener is registered, banner and style are removed and no
\* element carries picker-highlight or picker-selected; and no later mouse
\* or key event changes anything on the page
C23_ResolvedOnceAndCleanedUp ==
  [][/\ resolveCalls' <= 1
     /\ (resolved' # <<>>) =>
          /\ resolveCalls' = 1
          /\ listeners' = {}
          /\ ~bannerIn'
          /\ ~styleIn'
          /\ highlightClass' = {}
          /\ selectedClass' = {}
     /\ (resolved # <<>>) => pickPage' = pickPage]_vars

\* C23 witness: a plain click on A resolved the promise, and a
\* Cmd/Ctrl+click on B and Enter came after it
C23_Witness ==
  /\ events = <<ClickEvent("A", FALSE), ClickEvent("B", TRUE), KeyEvent("Enter")>>
  /\ resolved = <<OneResult(getElementInfo("A"))>>
  /\ resolveCalls = 1
  /\ listeners = {}

\* the elements of a sequence
Elements(array) == {array[i] : i \in 1..Len(array)}

\* C27: while the picker runs, the elements carrying picker-selected are
\* those of selectedElements, none of them twice in it; at most one element
\* carries picker-highlight; and no element carries both classes
C27_ClassesMatchSelection ==
  PickerRunning =>
    /\ selectedClass = Elements(selectedElements)
    /\ Cardinality(selectedClass) = Len(selectedElements)
    /\ Cardinality(highlightClass) <= 1
    /\ selectedClass \cap highlightClass = {}

\* C27 witness: A and B are selected, A after having been highlighted, and
\* the pointer highlights C
C27_Witness ==
  /\ PickerRunning
  /\ selectedElements = <<"A", "B">>
  /\ currentHighlight = <<"C">>
  /\ highlightClass = {"C"}
  /\ events = <<ClickEvent("A", TRUE), ClickEvent("B", TRUE)>>

\* the last line printed
LastOf(lines) == lines[Len(lines)]

\* the content field holds the placeholder, or a text of 1 to 5000 characters
ValidContent(c) ==
  \/ c = [kind |-> "placeholder", length |-> 27]
  \/ (c.kind = "text" /\ c.length \in 1..5000)

\* the content fetching loop of this run has started
FetchStarted == fetchContent /\ srNext >= 1

\* a result whose page could not be extracted got the placeholder
SomeFailed ==
  \E i \in DOMAIN srResults : srResults[i].content.kind = "placeholder"

\* C25 as claimed: a run with --content in which the page of a result could
\* not be extracted exits with code 0, with the results printed
C25_FailureNeverAborts ==
  (FetchStarted /\ SomeFailed /\ srPc = "exited")
    => (srExit = 0 /\ srStdout # <<>>)

\* the step taken by the global timeout: its message, no results, code 1
TimedOut ==
  /\ srPc' = "exited"
  /\ srExit' = 1
  /\ LastOf(srStderr') = "global-timeout"
  /\ srStdout' = <<>>

\* the step that ends the extraction of the result the loop stands at: the
\* result gets a valid content field, the placeholder when the extraction
\* warned of a failure, the other results stay as they are, and the loop
\* goes on to the next result or, after the last, prints all of them
Processed ==
  /\ ValidContent(srResults'[srNext].content)
  /\ srStderr' # srStderr => srResults'[srNext].content.kind = "placeholder"
  /\ Len(srResults') = Len(srResults)
  /\ \A i \in DOMAIN srResults : i # srNext => srResults'[i] = srResults[i]
  /\ IF srNext < Len(srResults)
     THEN srPc' = "fetch" /\ srNext' = srNext + 1 /\ srStdout' = <<>>
     ELSE /\ srPc' = "disconnect"
          /\ Len(srStdout'[1]) = Len(srResults)
          /\ \A i \in DOMAIN srResults :
               /\ srStdout'[1][i].hit = srResults[i].hit
               /\ ValidContent(srStdout'[1][i].content)

\* C25: with --content, unless the global timeout ends the run with code 1
\* and without output, each result in turn gets a content field that is the
\* placeholder (always so after a failed extraction) or a text of at most
\* 5000 characters, all results are printed after the last one, and the
\* script then exits with code 0
C25_FailureAbortsOnlyByTimeout ==
  [][/\ (srPc = "fetch") => (TimedOut \/ Processed)
     /\ (srPc = "disconnect" /\ FetchStarted) =>
          (srPc' = "exited" /\ srExit' = 0)]_vars

\* C25 witness: of three results the first could not be extracted, the
\* second gave a text cut to 5000 characters and the third a short text;
\* the three were printed and the script exited with code 0
C25_Witness ==
  /\ fetchContent
  /\ srPc = "exited"
  /\ srExit = 0
  /\ srStderr = <<"searching", "warning">>
  /\ Len(srStdout[1]) = 3
  /\ srStdout[1][1].content.kind = "placeholder"
  /\ srStdout[1][2].content = [kind |-> "text", length |-> 5000]
  /\ srStdout[1][3].content = [kind |-> "text", length |-> 1]

\* ------------------------------------------------------------------------
\* Claims about the active-tab scripts (SpecTab)
\* ------------------------------------------------------------------------

\* text is a run of digits
AllDigits(text) == \A i \in DOMAIN text : text[i] \in Elements(DigitChars)

\* text is YYYY-MM-DD-HH-mm-ss: six numeric fields of 4, 2, 2, 2, 2 and 2
\* digits with hyphens between them, and nothing else
SixFields(text) ==
  /\ Len(text) = 19
  /\ \A i \in {5, 8, 11, 14, 17} : text[i] = "-"
  /\ AllDigits(SubSeq(text, 1, 4))
  /\ \A i \in {6, 9, 12, 15, 18} : AllDigits(SubSeq(text, i, i + 1))

\* the file name of a path: what follows the last slash
BaseName(path) ==
  LET at == {i \in DOMAIN path : path[i] = "/"} IN
  IF at = {} THEN path ELSE SubSeq(path, Max(at) + 1, Len(path))

\* name is screenshot-<timestamp>.png with a timestamp of six fields
DocumentedName(name) ==
  /\ Len(name) = 11 + 19 + 4
  /\ SubSeq(name, 1, 11) =
       <<"s", "c", "r", "e", "e", "n", "s", "h", "o", "t", "-">>
  /\ SixFields(SubSeq(name, 12, 30))
  /\ SubSeq(name, 31, 34) = <<".", "p", "n", "g">>

\* C21: the file browser-screenshot.js writes and prints is named
\* screenshot-<timestamp>.png, with a timestamp of the form
\* YYYY-MM-DD-HH-mm-ss: six numeric fields separated by hyphens
C21_SixFieldTimestamp ==
  (tsScript = "screenshot" /\ tsFile # <<>>) => DocumentedName(BaseName(tsFile))

\* the words every active-tab script reports a missing page with
NoActiveTabWords ==
  <<"N", "o", " ", "a", "c", "t", "i", "v", "e", " ", "t", "a", "b", " ",
    "f", "o", "u", "n", "d">>

\* C26: an active-tab script never changes the number of open tabs; when
\* browser.pages() gives no page it prints its failure message with "No
\* active tab found" and goes on to disconnect, never to its work on a page;
\* and after that disconnect it exits with code 1
C26_NoTabOpened ==
  [][/\ tsTabs' = tsTabs
     /\ (tsPc = "pages" /\ tsTabs = 0) =>
          /\ tsPc' = "failed"
          /\ tsStderr' # tsStderr
          /\ LastOf(tsStderr').diagnostic = OwnDiagnostic(tsScript)
          /\ IncludesText(LastOf(tsStderr').message, NoActiveTabWords)
     /\ (tsPc = "failed") => (tsPc' = "exited" /\ tsExit' = 1)
     /\ (tsTabs' = 0) => tsPc' \notin {"work", "disconnect"}]_vars

\* C26 witness: browser-cookies.js ran against a Chrome without a tab and
\* exited with code 1 after the message; there is still no tab
C26_Witness ==
  /\ tsScript = "cookies"
  /\ tsTabs = 0
  /\ tsPc = "exited"
  /\ tsExit = 1
  /\ tsStdout = <<>>
  /\ tsStderr = <<[diagnostic |-> "Failed to retrieve cookies",
                   message |-> NoActiveTabMessage]>>

\* C28: a failure after the connection was established is reported with the
\* failure message of the script, never with "Could not connect to Chrome"
C28_OwnMessageAfterConnect ==
  [][(tsPc \in {"pages", "work"} /\ tsStderr' # tsStderr) =>
       LastOf(tsStderr').diagnostic = OwnDiagnostic(tsScript)]_vars

\* ------------------------------------------------------------------------
\* Claims about browser-start.js (SpecStart)
\* ------------------------------------------------------------------------

\* C22: when browser-start.js has printed that Chrome started and exited
\* with code 0, the earlier instance had terminated before the new one was
\* spawned, and the instance that answered on the port is the new one
C22_NewInstanceAnswers ==
  (stPc = "exited" /\ stExit = 0 /\ stStdout # <<>> /\ LastOf(stStdout) = "started")
    => /\ oldAtSpawn \in {<<"none">>, <<"gone">>}
       /\ stAnswered = <<"new">>

\* the number of probes that failed so far
FailedProbes == IF stAnswered = <<>> THEN stProbes ELSE stProbes - 1

\* C24: waitForChrome makes at most 30 probes; a probe that is answered
\* with ok makes it return true, and no probe follows a return; it returns
\* false exactly when 30 probes failed and the loop ended; and the script
\* exits with code 0 after true and with code 1 after false
C24_ProbesAndExitCode ==
  [][/\ stProbes' <= 30
     /\ (stAnswered' # stAnswered) => stReady' = <<TRUE>>
     /\ (stReady # <<>>) => stProbes' = stProbes
     /\ (stReady' = <<TRUE>>) => FailedProbes' = stProbes' - 1
     /\ (stReady' = <<FALSE>>) <=>
          (FailedProbes' = 30 /\ stPc' = "exited")
     /\ (stReady' # <<>>) =>
          /\ stPc' = "exited"
          /\ stExit' = IF stReady'[1] THEN 0 ELSE 1]_vars

\* C24 witness: thirty probes failed, waitForChrome returned false and the
\* script exited with code 1
C24_Witness ==
  /\ stProbes = 30
  /\ stAnswered = <<>>
  /\ stReady = <<FALSE>>
  /\ stPc = "exited"
  /\ stExit = 1
  /\ LastOf(stStderr) = "failed-to-connect"

\* ------------------------------------------------------------------------
\* Claims about browser-search.js (SpecSearch)
\* ------------------------------------------------------------------------

\* the value given after -n, <<>> when -n is absent or the last argument
ValueAfterN(args) ==
  LET at == {i \in 1..Len(args) : args[i] = <<"-", "n">>} IN
  IF at = {} \/ Min(at) = Len(args) THEN <<>> ELSE args[Min(at) + 1]

\* v is the decimal numeral of a positive integer
PositiveInteger(v) ==
  /\ v # <<>>
  /\ \A i \in 1..Len(v) : v[i] \in {"0", "1", "9"}
  /\ Decimal(v) > 0

\* main of browser-search.js got past the usage text with these arguments
LimitSet == srPc \notin {"idle", "start"} /\ ~srHelp

\* C20: the effective limit lies in 1..100, it is 5 when -n is absent or
\* its value is not a positive integer, and no more results than the limit
\* are printed
C20_LimitInRange ==
  LimitSet =>
    /\ numResults \in 1..100
    /\ ~PositiveInteger(ValueAfterN(srArgs)) => numResults = 5
    /\ srStdout # <<>> => Len(srStdout[1]) <= numResults

\* ------------------------------------------------------------------------
\* cleanText applied to bounded inputs
\* ------------------------------------------------------------------------

Chars == {"a", "b", "(", ")", " ", "\n"}

Strings(n) == UNION {[1..k -> Chars] : k \in 0..n}

InitClean ==
  /\ ctStage = "input"
  /\ ctIn \in Strings(MaxStrLen)
  /\ ctOnce = <<>>
  /\ ctTwice = <<>>
  /\ urls = {}
  /\ tabs = <<>>
  /\ Invocations(0)
  /\ PickIdle
  /\ SearchIdle
  /\ TabIdle
  /\ StartIdle

CleanOnce ==
  /\ ctStage = "input"
  /\ ctOnce' = cleanText(ctIn)
  /\ ctStage' = "once"
  /\ UNCHANGED <<ctIn, ctTwice, runVars, pickVars, searchVars, tabVars, startVars>>

CleanTwice ==
  /\ ctStage = "once"
  /\ ctTwice' = cleanText(ctOnce)
  /\ ctStage' = "twice"
  /\ UNCHANGED <<ctIn, ctOnce, runVars, pickVars, searchVars, tabVars, startVars>>

NextClean == CleanOnce \/ CleanTwice

SpecClean == InitClean /\ [][NextClean]_vars

\* C7: cleaning a cleaned string changes nothing
C7_CleanTextIdempotent == ctStage = "twice" => ctTwice = ctOnce

\* C8: "a\n\n\n\nb" is cleaned to "a\n\nb"
C8_ParagraphBreakKept ==
  (ctStage # "input" /\ ctIn = <<"a", "\n", "\n", "\n", "\n", "b">>)
    => ctOnce = <<"a", "\n", "\n", "b">>

====
